---- MODULE Spec2Model ----
(***************************************************************************)
(* Model of the streaming pipeline of loutube: watch_video of             *)
(* src/loutube.py (lines 681-882), from the registration of its signal    *)
(* handler to the termination of the program, and watch_video of          *)
(* src/youtube_downloader.py (lines 280-328), the earlier version of the   *)
(* same pipeline, together with the two external processes (yt-dlp, the    *)
(* producer, and vlc, the consumer) they supervise.                        *)
(*                                                                         *)
(* The operating system's process table is the variable procs.  The two    *)
(* local variables yt_process and vlc_process of watch_video hold a pid    *)
(* of that table once subprocess.Popen has returned, NoHandle (Python's    *)
(* None) before.  A process exits on its own at any moment (ProcExit); a   *)
(* SIGTERM is a request the process may or may not honour, a SIGKILL ends  *)
(* the process at once.                                                    *)
(***************************************************************************)
EXTENDS Integers, Sequences, FiniteSets, TLC

VARIABLES
    prog,         \* which script runs: "loutube" or "youtube_downloader"
    pc,           \* position of the controller in watch_video
    live,         \* result of is_live_stream(url)
    choice,       \* the live-stream option the user chose ("" when not live)
    procs,        \* process table: pid -> process record
    yt_process,   \* local variable of watch_video: pid or NoHandle
    vlc_process,  \* local variable of watch_video: pid or NoHandle
    closes,       \* number of times the controller closed yt_process.stdout
    out,          \* what the controller printed, in order
    nsig,         \* number of signals delivered so far
    handlerRuns,  \* pcs at which signal_handler ran
    health,       \* state of the producer at the startup health check
    timedOut,     \* communicate(timeout=7200) raised TimeoutExpired
    spawnFailed,  \* program whose Popen raised FileNotFoundError ("" if none)
    finallyDone,  \* the finally block ran to its last statement
    newborn,      \* child created by the Popen call in progress, or NoHandle
    run_process,  \* child owned by the subprocess.run call in progress
    ctlPipe,      \* the controller's reference to yt_process.stdout
    stderr_pipe,  \* unread chunks in the pipe of the producer's stderr
    exitStatus,   \* status of sys.exit, NoStatus while the program runs
    \* run_with_progress_counter and the terminal it writes to
    input,        \* lines the child process has still to write
    process,      \* local variable of run_with_progress_counter
    had_progress, \* local variable of run_with_progress_counter
    prev_length,  \* draw_progress_counter._prev_length
    screen,       \* rows of the terminal, the last one holds the cursor
    col,          \* column of the cursor, 0 is the start of the row
    log,          \* per non-empty line read: the stripped line, its parse result
    raised,       \* exception that left the function ("" if none)
    \* main and the operations it calls
    fn,           \* the operation that main or the editor menu called
    typed,        \* what the user typed at the latest prompt
    asked,        \* how the latest prompt read it: "safe_input" or "input"
    palette,      \* the temporary palette image of a GIF operation exists
    \* the yt-dlp command builders and the detection of browser cookies
    url,          \* argument of the latest call of a command builder
    command,      \* the command it returned, a sequence of arguments
    cookies_checked,        \* global _cookies_checked
    cached_browser_cookies, \* global _cached_browser_cookies ("" for None)
    probes,       \* number of `yt-dlp --cookies-from-browser` probes run
    returned,     \* what the latest get_browser_cookies_fast returned
    detections,   \* number of calls of get_browser_cookies_fast
    calls,        \* number of calls of the command builders
    system,       \* platform.system().lower()
    available,    \* browser keys for which the probe exits with 0
    brave_snap,   \* get_brave_snap_path() finds a profile
    \* validate_output_path
    output_path,  \* local output_path
    base_path,    \* local base_path
    extension,    \* local extension
    counter,      \* local counter
    exists,       \* the paths that exist in the file system
    confirmed     \* the paths whose overwriting was confirmed with 'y'

progressVars == <<input, process, had_progress, prev_length, screen, col,
                  log, raised>>

mainVars == <<fn, typed, asked, palette>>

cookieVars == <<url, command, cookies_checked, cached_browser_cookies,
                probes, returned, detections, calls, system, available,
                brave_snap>>

\* the parts of the program that the streaming pipeline does not touch
validateVars == <<output_path, base_path, extension, counter, exists,
                  confirmed>>

others == <<progressVars, mainVars, cookieVars, validateVars>>

streamVars == <<prog, pc, live, choice, procs, yt_process, vlc_process,
                newborn, run_process, ctlPipe, closes, out, nsig, handlerRuns,
                health, timedOut, spawnFailed, finallyDone, exitStatus,
                stderr_pipe>>

vars == <<streamVars, others>>

-----------------------------------------------------------------------------
(* Bounds of the model *)

MaxPid == 3
MaxSignals == 2
\* the number of chunks the pipe of the producer's stderr holds
PipeCapacity == 2

-----------------------------------------------------------------------------
(* Program constants *)

NoHandle == 0
NoStatus == -1
SIGINT == 2
SIGTERM == 15
SigKillCode == -9

Pids == 1..MaxPid
Signals == {SIGINT, SIGTERM}
ExitCodes == {0, 1, 2}
DiagTexts == {"", "diag"}
Choices == {"1", "2", "3", "x"}
Programs == {"loutube", "youtube_downloader"}

NoProc ==
    [kind |-> "none", st |-> "none", code |-> 0, diag |-> "",
     stdin |-> "none", stderr |-> "none",
     termBy |-> {}, killBy |-> {}, badTerm |-> FALSE]

Msg(tag, text, code) == [tag |-> tag, text |-> text, code |-> code]

Printed(tag) == \E i \in 1..Len(out) : out[i].tag = tag

-----------------------------------------------------------------------------
(* subprocess.Popen and its methods *)

FreePids(ps) == {p \in Pids : ps[p].kind = "none"}

NewPid(ps) == CHOOSE p \in FreePids(ps) : \A q \in FreePids(ps) : p <= q

\* Popen(...): the child is created and runs
Popen(ps, kind, stdin, stderr) ==
    [ps EXCEPT ![NewPid(ps)] =
        [NoProc EXCEPT !.kind = kind, !.st = "running",
                       !.stdin = stdin, !.stderr = stderr]]

\* `h and h.poll() is None`
Alive(ps, h) == h # NoHandle /\ ps[h].st = "running"

\* h.terminate(): SIGTERM; a no-op on a process that has exited
Terminate(ps, h, step) ==
    IF ps[h].st = "running"
    THEN [ps EXCEPT ![h].termBy = @ \cup {step}]
    ELSE [ps EXCEPT ![h].badTerm = TRUE]

\* h.kill(): SIGKILL cannot be caught or ignored
Kill(ps, h, step) ==
    IF ps[h].st = "running"
    THEN [ps EXCEPT ![h].st = "exited", ![h].code = SigKillCode,
                    ![h].killBy = @ \cup {step}]
    ELSE ps

\* the stderr half of h.communicate(): None (falsy, here "") unless the
\* process was started with stderr=PIPE
CapturedStderr(ps, h) ==
    IF ps[h].stderr = "PIPE" THEN ps[h].diag ELSE ""

-----------------------------------------------------------------------------

\* the positions of the control thread in main and the operations it calls
MainPcs == {"m_deps", "m_choice", "m_url", "m_opt", "m_detail", "m_download",
            "e_ffmpeg", "e_select", "e_pick", "e_menu", "e_setup", "e_run",
            "g_palette", "g_gif", "e_another", "f_path", "f_level", "f_show", "f_pause", "a_play",
            "crashed"}

\* the positions of the control thread in run_with_progress_counter
ValidatePcs == {"v_test", "v_overwrite", "v_suggest", "v_new", "v_returned"}

ProgressPcs == {"rp_popen", "rp_read", "rp_wait", "rp_done", "rp_raised"}

\* run_with_progress_counter has not been called
ProgressIdle ==
    /\ input = <<>>
    /\ process = NoHandle
    /\ had_progress = FALSE
    /\ prev_length = 0
    /\ screen = <<>>
    /\ col = 0
    /\ log = <<>>
    /\ raised = ""

\* main has not prompted and no operation runs
MainIdle ==
    /\ fn = ""
    /\ typed = <<>>
    /\ asked = ""
    /\ palette = FALSE

\* no command has been built and the cookie cache is as at import
\* validate_output_path has not been called
ValidateIdle ==
    /\ output_path = <<>>
    /\ base_path = <<>>
    /\ extension = <<>>
    /\ counter = 1
    /\ exists = {}
    /\ confirmed = {}

CookiesIdle ==
    /\ url = <<>>
    /\ command = <<>>
    /\ cookies_checked = FALSE
    /\ cached_browser_cookies = ""
    /\ probes = 0
    /\ returned = ""
    /\ detections = 0
    /\ calls = 0
    /\ system = "linux"
    /\ available = {}
    /\ brave_snap = FALSE

Init ==
    /\ ProgressIdle
    /\ MainIdle
    /\ CookiesIdle
    /\ ValidateIdle
    /\ prog \in Programs
    /\ pc = IF prog = "loutube" THEN "check_vlc" ELSE "yd_check_vlc"
    /\ live \in BOOLEAN
    /\ choice \in Choices \cup {""}
    /\ (live <=> choice # "")
    /\ prog = "youtube_downloader" => ~live
    /\ procs = [p \in Pids |-> NoProc]
    /\ yt_process = NoHandle
    /\ vlc_process = NoHandle
    /\ newborn = NoHandle
    /\ run_process = NoHandle
    /\ ctlPipe = "none"
    /\ stderr_pipe = 0
    /\ closes = 0
    /\ out = <<>>
    /\ nsig = 0
    /\ handlerRuns = {}
    /\ health = "unchecked"
    /\ timedOut = FALSE
    /\ spawnFailed = ""
    /\ finallyDone = FALSE
    /\ exitStatus = NoStatus

-----------------------------------------------------------------------------
(* watch_video, lines 749-798: player check and the live-stream branches *)

inputs == <<prog, live, choice, others>>
\* nothing but the producer and a read of yt_process.stderr changes the pipe
\* of the producer's stderr
untouched == <<inputs, stderr_pipe>>
handles == <<yt_process, vlc_process, run_process>>
pipe == <<ctlPipe, closes>>
sigs == <<nsig, handlerRuns>>
flags == <<health, timedOut, finallyDone>>

\* line 858: the message of the `except FileNotFoundError` clause
NotFoundMessage == Msg("not found", "vlc", 0)

\* a Popen that raises FileNotFoundError inside the try block: lines 857-858
\* run and the finally block follows
SpawnFails(program) ==
    /\ spawnFailed' = program
    /\ out' = Append(out, NotFoundMessage)
    /\ pc' = "fin_yt"
    /\ UNCHANGED <<untouched, procs, handles, newborn, pipe, sigs, flags,
                   exitStatus>>

\* a Popen that creates the child; the caller's variable is bound afterwards
SpawnStarts(kind, stdin, stderr, next) ==
    /\ FreePids(procs) # {}
    /\ procs' = Popen(procs, kind, stdin, stderr)
    /\ newborn' = NewPid(procs)
    /\ pc' = next

\* lines 753-759
CheckVlc ==
    /\ pc = "check_vlc"
    /\ \E vlc_ok \in BOOLEAN :
          IF vlc_ok
          THEN /\ out' = Append(out, Msg("starting", "", 0))
               /\ pc' = "live_direct"
          ELSE /\ out' = Append(out, Msg("VLC Error", "vlc", 0))
               /\ pc' = "fin_yt"
    /\ UNCHANGED <<untouched, procs, handles, newborn, pipe, sigs, flags,
                   spawnFailed, exitStatus>>

\* lines 762-764 and 771-772: get_direct_stream_url
GetDirectUrl ==
    /\ pc = "live_direct"
    /\ IF live /\ choice = "1"
       THEN \E direct \in BOOLEAN :
               IF direct
               THEN /\ out' = Append(out, Msg("opening direct", "", 0))
                    /\ pc' = "direct_spawn"
               ELSE /\ out' = Append(out, Msg("no direct url", "", 0))
                    /\ pc' = "live_record"
       ELSE /\ out' = out
            /\ pc' = "live_record"
    /\ UNCHANGED <<untouched, procs, handles, newborn, pipe, sigs, flags,
                   spawnFailed, exitStatus>>

\* lines 766-768: Popen(["vlc", ..., direct])
DirectSpawn ==
    /\ pc = "direct_spawn"
    /\ \E found \in BOOLEAN :
          IF found
          THEN /\ SpawnStarts("vlc", "none", "inherit", "direct_bind")
               /\ UNCHANGED <<untouched, handles, pipe, out, sigs, flags,
                              spawnFailed, exitStatus>>
          ELSE SpawnFails("vlc")

\* the direct-URL branch without its wait() and return
DirectBind_NoWait ==
    /\ pc = "direct_bind"
    /\ vlc_process' = newborn
    /\ newborn' = NoHandle
    /\ pc' = "live_record"
    /\ UNCHANGED <<untouched, procs, yt_process, run_process, pipe, out, sigs,
                   flags, spawnFailed, exitStatus>>

\* line 766: vlc_process = ...
DirectBind ==
    /\ pc = "direct_bind"
    /\ vlc_process' = newborn
    /\ newborn' = NoHandle
    /\ pc' = "direct_wait"
    /\ UNCHANGED <<untouched, procs, yt_process, run_process, pipe, out, sigs,
                   flags, spawnFailed, exitStatus>>

\* lines 769-770: vlc_process.wait(); return
DirectWait ==
    /\ pc = "direct_wait"
    /\ procs[vlc_process].st = "exited"
    /\ pc' = "fin_yt"
    /\ UNCHANGED <<untouched, procs, handles, newborn, pipe, out, sigs, flags,
                   spawnFailed, exitStatus>>

\* lines 774 and 787: the two recording options
LiveRecord ==
    /\ pc = "live_record"
    /\ IF live /\ choice \in {"2", "3"}
       THEN /\ out' = Append(out, Msg("recording", "", 0))
            /\ pc' = "record_spawn"
       ELSE /\ out' = out
            /\ pc' = "spawn_yt"
    /\ UNCHANGED <<untouched, procs, handles, newborn, pipe, sigs, flags,
                   spawnFailed, exitStatus>>

\* lines 783 and 795: subprocess.run(record_cmd, ...), its Popen
RecordSpawn ==
    /\ pc = "record_spawn"
    /\ \E found \in BOOLEAN :
          IF found
          THEN /\ SpawnStarts("yt-dlp", "none", "inherit", "record_init")
               /\ UNCHANGED <<untouched, handles, pipe, out, sigs, flags,
                              spawnFailed, exitStatus>>
          ELSE SpawnFails("yt-dlp")

\* subprocess.run: `with Popen(...) as process`
RecordInit ==
    /\ pc = "record_init"
    /\ run_process' = newborn
    /\ newborn' = NoHandle
    /\ pc' = "record_wait"
    /\ UNCHANGED <<untouched, procs, yt_process, vlc_process, pipe, out, sigs,
                   flags, spawnFailed, exitStatus>>

\* subprocess.run: process.communicate() returns; lines 784 and 798: return
RecordWait ==
    /\ pc = "record_wait"
    /\ procs[run_process].st = "exited"
    /\ run_process' = NoHandle
    /\ pc' = "fin_yt"
    /\ UNCHANGED <<untouched, procs, yt_process, vlc_process, newborn, pipe,
                   out, sigs, flags, spawnFailed, exitStatus>>

-----------------------------------------------------------------------------
(* watch_video, lines 800-855: the piped pipeline *)

\* line 803: Popen(command, stdout=PIPE, stderr=PIPE, ...)
SpawnYt ==
    /\ pc = "spawn_yt"
    /\ \E found \in BOOLEAN :
          IF found
          THEN /\ SpawnStarts("yt-dlp", "none", "PIPE", "yt_bind")
               /\ ctlPipe' = "open"
               /\ UNCHANGED <<untouched, handles, closes, out, sigs, flags,
                              spawnFailed, exitStatus>>
          ELSE SpawnFails("yt-dlp")

\* line 803: yt_process = ...
BindYt ==
    /\ pc = "yt_bind"
    /\ yt_process' = newborn
    /\ newborn' = NoHandle
    /\ pc' = "sleep"
    /\ UNCHANGED <<untouched, procs, vlc_process, run_process, pipe, out, sigs,
                   flags, spawnFailed, exitStatus>>

\* the grace period followed by the spawn of the player, no health check
Sleep_SkipHealth ==
    /\ pc = "sleep"
    /\ pc' = "spawn_vlc"
    /\ UNCHANGED <<untouched, procs, handles, newborn, pipe, out, sigs, flags,
                   spawnFailed, exitStatus>>

\* line 812: time.sleep(1) returns
Sleep ==
    /\ pc = "sleep"
    /\ pc' = "health"
    /\ UNCHANGED <<untouched, procs, handles, newborn, pipe, out, sigs, flags,
                   spawnFailed, exitStatus>>

\* the health check with its test inverted
ProducerFailed_Inverted(ps, h) == ps[h].st = "running"

\* line 815: yt_process.poll() is not None
ProducerFailed(ps, h) == ps[h].st # "running"

\* lines 815-820
HealthCheck ==
    /\ pc = "health"
    /\ health' = IF procs[yt_process].st = "running"
                 THEN "passed" ELSE "failed"
    /\ IF ProducerFailed(procs, yt_process)
       THEN /\ out' = Append(out, Msg("yt-dlp failed to start",
                                      CapturedStderr(procs, yt_process), 0))
            /\ stderr_pipe' = 0
            /\ pc' = "fin_yt"
       ELSE /\ out' = Append(out, Msg("yt-dlp started", "", 0))
            /\ stderr_pipe' = stderr_pipe
            /\ pc' = "spawn_vlc"
    /\ UNCHANGED <<inputs, procs, handles, newborn, pipe, sigs, timedOut,
                   finallyDone, spawnFailed, exitStatus>>

\* line 827: stderr=subprocess.DEVNULL
VlcStderr == "DEVNULL"

\* lines 823-828: Popen(vlc_command, stdin=yt_process.stdout, ...)
SpawnVlc ==
    /\ pc = "spawn_vlc"
    /\ \E found \in BOOLEAN :
          IF found
          THEN /\ SpawnStarts("vlc", "pipe", VlcStderr, "vlc_bind")
               /\ UNCHANGED <<untouched, handles, pipe, out, sigs, flags,
                              spawnFailed, exitStatus>>
          ELSE SpawnFails("vlc")

\* line 823: vlc_process = ...
BindVlc ==
    /\ pc = "vlc_bind"
    /\ vlc_process' = newborn
    /\ newborn' = NoHandle
    /\ pc' = "close_pipe"
    /\ UNCHANGED <<untouched, procs, yt_process, run_process, pipe, out, sigs,
                   flags, spawnFailed, exitStatus>>

\* the controller keeps its reference to the pipe while it waits
ClosePipe_Skip ==
    /\ pc = "close_pipe"
    /\ out' = Append(out, Msg("VLC launched", "", 0))
    /\ pc' = "communicate"
    /\ UNCHANGED <<untouched, procs, handles, newborn, pipe, sigs, flags,
                   spawnFailed, exitStatus>>

\* lines 831-833: yt_process.stdout.close()
ClosePipe ==
    /\ pc = "close_pipe"
    /\ ctlPipe' = "closed"
    /\ closes' = closes + 1
    /\ out' = Append(out, Msg("VLC launched", "", 0))
    /\ pc' = "communicate"
    /\ UNCHANGED <<untouched, procs, handles, newborn, sigs, flags, spawnFailed,
                   exitStatus>>

\* lines 840-847: what is printed for a return code of the player
ExitReport(code, vlc_stderr) ==
    IF code = 0 THEN <<Msg("completed successfully", "", 0)>>
    ELSE IF code = 1 THEN <<Msg("streaming ended", "", 0)>>
    ELSE <<Msg("VLC exited with code", "", code)>>
         \o (IF vlc_stderr # ""
             THEN <<Msg("VLC error output", vlc_stderr, 0)>>
             ELSE <<>>)

\* lines 837-847: communicate(timeout=7200) returns, the player has exited
Communicate ==
    /\ pc = "communicate"
    /\ procs[vlc_process].st = "exited"
    /\ out' = out \o ExitReport(procs[vlc_process].code,
                                CapturedStderr(procs, vlc_process))
    /\ pc' = "fin_yt"
    /\ UNCHANGED <<untouched, procs, handles, newborn, pipe, sigs, flags,
                   spawnFailed, exitStatus>>

\* lines 849-851: TimeoutExpired, the player is still running
CommunicateTimeout ==
    /\ pc = "communicate"
    /\ procs[vlc_process].st = "running"
    /\ timedOut' = TRUE
    /\ out' = Append(out, Msg("Stream timeout reached", "", 0))
    /\ procs' = Terminate(procs, vlc_process, "timeout")
    /\ pc' = "timeout_wait"
    /\ UNCHANGED <<untouched, handles, newborn, pipe, sigs, health,
                   finallyDone, spawnFailed, exitStatus>>

\* lines 852-853: wait(timeout=5) returns
TimeoutWait ==
    /\ pc = "timeout_wait"
    /\ procs[vlc_process].st = "exited"
    /\ pc' = "fin_yt"
    /\ UNCHANGED <<untouched, procs, handles, newborn, pipe, out, sigs, flags,
                   spawnFailed, exitStatus>>

\* the timeout branch without its escalation to kill()
TimeoutKill_NoKill ==
    /\ pc = "timeout_wait"
    /\ procs[vlc_process].st = "running"
    /\ pc' = "fin_yt"
    /\ UNCHANGED <<untouched, procs, handles, newborn, pipe, out, sigs, flags,
                   spawnFailed, exitStatus>>

\* lines 854-855: wait(timeout=5) raises TimeoutExpired, vlc_process.kill()
TimeoutKill ==
    /\ pc = "timeout_wait"
    /\ procs[vlc_process].st = "running"
    /\ procs' = Kill(procs, vlc_process, "timeout")
    /\ pc' = "fin_yt"
    /\ UNCHANGED <<untouched, handles, newborn, pipe, out, sigs, flags,
                   spawnFailed, exitStatus>>

-----------------------------------------------------------------------------
(* watch_video, lines 865-882: the finally block *)

\* the cleanup test without its poll()
NeedsCleanup_NoPoll(ps, h) == h # NoHandle

\* lines 867 and 874: `h and h.poll() is None`
NeedsCleanup(ps, h) == Alive(ps, h)

\* a finally block without the sys.exit(0): watch_video returns
ExitProgram_Return ==
    /\ finallyDone' = TRUE
    /\ exitStatus' = exitStatus
    /\ pc' = "returned"

\* line 882: sys.exit(0) as the last statement of the finally block
ExitProgram ==
    /\ finallyDone' = TRUE
    /\ exitStatus' = 0
    /\ pc' = "exited"

\* lines 867-869
FinYt ==
    /\ pc = "fin_yt"
    /\ IF NeedsCleanup(procs, yt_process)
       THEN /\ out' = Append(out, Msg("Cleaning up", "yt-dlp", 0))
            /\ procs' = Terminate(procs, yt_process, "finally")
            /\ pc' = "fin_yt_wait"
       ELSE /\ out' = out
            /\ procs' = procs
            /\ pc' = "fin_vlc"
    /\ UNCHANGED <<untouched, handles, newborn, pipe, sigs, flags, spawnFailed,
                   exitStatus>>

\* lines 870-871: yt_process.wait(timeout=5) returns
FinYtWait ==
    /\ pc = "fin_yt_wait"
    /\ procs[yt_process].st = "exited"
    /\ pc' = "fin_vlc"
    /\ UNCHANGED <<untouched, procs, handles, newborn, pipe, out, sigs, flags,
                   spawnFailed, exitStatus>>

\* lines 872-873: TimeoutExpired, yt_process.kill()
FinYtKill ==
    /\ pc = "fin_yt_wait"
    /\ procs[yt_process].st = "running"
    /\ procs' = Kill(procs, yt_process, "finally")
    /\ pc' = "fin_vlc"
    /\ UNCHANGED <<untouched, handles, newborn, pipe, out, sigs, flags,
                   spawnFailed, exitStatus>>

\* lines 874-876, and line 882 when the player needs no cleanup
FinVlc ==
    /\ pc = "fin_vlc"
    /\ IF NeedsCleanup(procs, vlc_process)
       THEN /\ out' = Append(out, Msg("Cleaning up", "vlc", 0))
            /\ procs' = Terminate(procs, vlc_process, "finally")
            /\ pc' = "fin_vlc_wait"
            /\ UNCHANGED <<finallyDone, exitStatus>>
       ELSE /\ out' = out
            /\ procs' = procs
            /\ ExitProgram
    /\ UNCHANGED <<untouched, handles, newborn, pipe, sigs, health,
                   timedOut, spawnFailed>>

\* lines 877-878 and 882: vlc_process.wait(timeout=5) returns
FinVlcWait ==
    /\ pc = "fin_vlc_wait"
    /\ procs[vlc_process].st = "exited"
    /\ ExitProgram
    /\ UNCHANGED <<untouched, procs, handles, newborn, pipe, out, sigs,
                   health, timedOut, spawnFailed>>

\* a cleanup whose wait on the player has no timeout: the wait goes on
FinVlcKill_WaitForever ==
    /\ pc = "fin_vlc_wait"
    /\ procs[vlc_process].st = "running"
    /\ UNCHANGED vars

\* lines 879-882: TimeoutExpired, vlc_process.kill()
FinVlcKill ==
    /\ pc = "fin_vlc_wait"
    /\ procs[vlc_process].st = "running"
    /\ procs' = Kill(procs, vlc_process, "finally")
    /\ ExitProgram
    /\ UNCHANGED <<untouched, handles, newborn, pipe, out, sigs, health,
                   timedOut, spawnFailed>>

-----------------------------------------------------------------------------
(* signal_handler, lines 737-747, and the environment *)

FinallyPcs == {"fin_yt", "fin_yt_wait", "fin_vlc", "fin_vlc_wait"}

\* lines 739-742
SignalHandler(ps, yt, vlc) ==
    LET ps1 == IF Alive(ps, yt) THEN Terminate(ps, yt, "handler") ELSE ps
    IN  IF Alive(ps1, vlc) THEN Terminate(ps1, vlc, "handler") ELSE ps1

\* SIGINT or SIGTERM is delivered to the controller: signal_handler runs and
\* its sys.exit(0) raises SystemExit where the controller stands.  No except
\* clause of watch_video catches it: inside the try block the finally block
\* runs next, inside the finally block the exception leaves watch_video.  A
\* Popen call that was in progress never returns its handle; subprocess.run
\* kills its child before it re-raises.
Signal ==
    /\ prog = "loutube"
    /\ pc # "exited"
    /\ nsig < MaxSignals
    /\ nsig' = nsig + 1
    /\ handlerRuns' = handlerRuns \cup {pc}
    /\ \E signum \in Signals :
          out' = Append(out, Msg("Received signal", "", signum))
    /\ LET ps == SignalHandler(procs, yt_process, vlc_process)
       IN  procs' = IF pc = "record_wait"
                    THEN Kill(ps, run_process, "run")
                    ELSE ps
    /\ newborn' = NoHandle
    /\ run_process' = NoHandle
    /\ IF pc \in FinallyPcs
       THEN /\ pc' = "exited"
            /\ exitStatus' = 0
       ELSE /\ pc' = "fin_yt"
            /\ exitStatus' = exitStatus
    /\ UNCHANGED <<untouched, yt_process, vlc_process, pipe, flags, spawnFailed>>

\* the producer stands in a write to its stderr that cannot complete: the
\* pipe is full
Blocked(ps, p) ==
    /\ ps[p].st = "running"
    /\ ps[p].kind = "yt-dlp"
    /\ ps[p].stderr = "PIPE"
    /\ stderr_pipe = PipeCapacity

\* the producer writes a chunk of messages to its stderr (with `-o -` all
\* its messages and its progress lines go there)
YtWritesStderr ==
    /\ pc \notin {"exited", "returned"}
    /\ stderr_pipe < PipeCapacity
    /\ \E p \in Pids :
          /\ procs[p].st = "running"
          /\ procs[p].kind = "yt-dlp"
          /\ procs[p].stderr = "PIPE"
    /\ stderr_pipe' = stderr_pipe + 1
    /\ UNCHANGED <<pc, inputs, procs, handles, newborn, pipe, out, sigs,
                   flags, spawnFailed, exitStatus>>

\* a running process exits on its own, or because it honours a SIGTERM; a
\* blocked producer does not come to its own end
ProcExit ==
    /\ pc \notin {"exited", "returned"}
    /\ \E p \in Pids, code \in ExitCodes, diag \in DiagTexts :
          /\ procs[p].st = "running"
          /\ Blocked(procs, p) => procs[p].termBy # {}
          /\ procs' = [procs EXCEPT ![p].st = "exited", ![p].code = code,
                                    ![p].diag = diag]
    /\ UNCHANGED <<pc, untouched, handles, newborn, pipe, out, sigs, flags,
                   spawnFailed, exitStatus>>

-----------------------------------------------------------------------------
(* watch_video of youtube_downloader.py, lines 312-328 *)

YdTryPcs == {"yd_check_vlc", "yd_spawn_yt", "yd_yt_bind", "yd_spawn_vlc",
             "yd_vlc_bind", "yd_close_pipe", "yd_communicate"}

\* lines 322-323: except FileNotFoundError
YdSpawnFails(program) ==
    /\ spawnFailed' = program
    /\ out' = Append(out, NotFoundMessage)
    /\ pc' = "returned"
    /\ UNCHANGED <<untouched, procs, handles, newborn, pipe, sigs, flags,
                   exitStatus>>

\* lines 313-315 and 322-325: subprocess.run(["vlc", "--version"], check=True)
YdCheckVlc ==
    /\ pc = "yd_check_vlc"
    /\ \E result \in {"ok", "missing", "nonzero"} :
          IF result = "missing"
          THEN YdSpawnFails("vlc")
          ELSE /\ IF result = "ok"
                  THEN /\ out' = Append(out, Msg("streaming", "", 0))
                       /\ pc' = "yd_spawn_yt"
                  ELSE /\ out' = Append(out, Msg("Failed to stream", "", 0))
                       /\ pc' = "returned"
               /\ UNCHANGED <<untouched, procs, handles, newborn, pipe, sigs,
                              flags, spawnFailed, exitStatus>>

\* line 318: Popen(command, stdout=PIPE, stderr=PIPE)
YdSpawnYt ==
    /\ pc = "yd_spawn_yt"
    /\ \E found \in BOOLEAN :
          IF found
          THEN /\ SpawnStarts("yt-dlp", "none", "PIPE", "yd_yt_bind")
               /\ ctlPipe' = "open"
               /\ UNCHANGED <<untouched, handles, closes, out, sigs, flags,
                              spawnFailed, exitStatus>>
          ELSE YdSpawnFails("yt-dlp")

\* line 318: yt_process = ...
YdBindYt ==
    /\ pc = "yd_yt_bind"
    /\ yt_process' = newborn
    /\ newborn' = NoHandle
    /\ pc' = "yd_spawn_vlc"
    /\ UNCHANGED <<untouched, procs, vlc_process, run_process, pipe, out, sigs,
                   flags, spawnFailed, exitStatus>>

\* line 319: Popen(vlc_command, stdin=yt_process.stdout, stderr=PIPE)
YdSpawnVlc ==
    /\ pc = "yd_spawn_vlc"
    /\ \E found \in BOOLEAN :
          IF found
          THEN /\ SpawnStarts("vlc", "pipe", "PIPE", "yd_vlc_bind")
               /\ UNCHANGED <<untouched, handles, pipe, out, sigs, flags,
                              spawnFailed, exitStatus>>
          ELSE YdSpawnFails("vlc")

\* line 319: vlc_process = ...
YdBindVlc ==
    /\ pc = "yd_vlc_bind"
    /\ vlc_process' = newborn
    /\ newborn' = NoHandle
    /\ pc' = "yd_close_pipe"
    /\ UNCHANGED <<untouched, procs, yt_process, run_process, pipe, out, sigs,
                   flags, spawnFailed, exitStatus>>

\* line 320: yt_process.stdout.close()
YdClosePipe ==
    /\ pc = "yd_close_pipe"
    /\ ctlPipe' = "closed"
    /\ closes' = closes + 1
    /\ pc' = "yd_communicate"
    /\ UNCHANGED <<untouched, procs, handles, newborn, out, sigs, flags,
                   spawnFailed, exitStatus>>

\* lines 321-322: vlc_process.communicate() returns, the player has exited
YdCommunicate ==
    /\ pc = "yd_communicate"
    /\ procs[vlc_process].st = "exited"
    /\ out' = Append(out, Msg("Streaming complete", "", 0))
    /\ pc' = "returned"
    /\ UNCHANGED <<untouched, procs, handles, newborn, pipe, sigs, flags,
                   spawnFailed, exitStatus>>

\* lines 326-327: SIGINT raises KeyboardInterrupt inside the try block (no
\* handler is installed by this script); a Popen call in progress never
\* returns its handle
YdInterrupt ==
    /\ prog = "youtube_downloader"
    /\ pc \in YdTryPcs
    /\ nsig < MaxSignals
    /\ nsig' = nsig + 1
    /\ out' = Append(out, Msg("Streaming interrupted by user", "", 0))
    /\ newborn' = NoHandle
    /\ pc' = "returned"
    /\ UNCHANGED <<untouched, procs, handles, pipe, handlerRuns, flags,
                   spawnFailed, exitStatus>>

-----------------------------------------------------------------------------

Next ==
    \/ CheckVlc
    \/ GetDirectUrl
    \/ DirectSpawn
    \/ DirectBind
    \/ DirectWait
    \/ LiveRecord
    \/ RecordSpawn
    \/ RecordInit
    \/ RecordWait
    \/ SpawnYt
    \/ BindYt
    \/ Sleep
    \/ HealthCheck
    \/ SpawnVlc
    \/ BindVlc
    \/ ClosePipe
    \/ Communicate
    \/ CommunicateTimeout
    \/ TimeoutWait
    \/ TimeoutKill
    \/ FinYt
    \/ FinYtWait
    \/ FinYtKill
    \/ FinVlc
    \/ FinVlcWait
    \/ FinVlcKill
    \/ Signal
    \/ YdCheckVlc
    \/ YdSpawnYt
    \/ YdBindYt
    \/ YdSpawnVlc
    \/ YdBindVlc
    \/ YdClosePipe
    \/ YdCommunicate
    \/ YdInterrupt
    \/ ProcExit
    \/ YtWritesStderr

Spec == Init /\ [][Next]_vars

TypeOK ==
    /\ pc \in {"check_vlc", "live_direct", "direct_spawn", "direct_bind",
               "direct_wait", "live_record", "record_spawn", "record_init",
               "record_wait", "spawn_yt", "yt_bind", "sleep", "health",
               "spawn_vlc", "vlc_bind", "close_pipe", "communicate",
               "timeout_wait", "exited", "returned"}
             \cup FinallyPcs \cup YdTryPcs \cup ProgressPcs
             \cup MainPcs \cup {"cookies"} \cup ValidatePcs
    /\ prog \in Programs
    /\ yt_process \in Pids \cup {NoHandle}
    /\ vlc_process \in Pids \cup {NoHandle}
    /\ newborn \in Pids \cup {NoHandle}
    /\ run_process \in Pids \cup {NoHandle}
    /\ ctlPipe \in {"none", "open", "closed"}
    /\ exitStatus \in {NoStatus, 0, 1}
    /\ nsig \in 0..MaxSignals
    /\ stderr_pipe \in 0..PipeCapacity

-----------------------------------------------------------------------------
(* Properties of the streaming pipeline *)

Running(kind) == {p \in Pids : procs[p].kind = kind /\ procs[p].st = "running"}

Started(kind) == {p \in Pids : procs[p].kind = kind}

GapPcs == {"yt_bind", "vlc_bind", "direct_bind", "record_init"}

\* C1: when the startup health check finds the producer already exited, no
\* player process is ever started in the session and the text the producer
\* wrote to its error stream is printed in the failure report.
C1_FailedProducerNeverStartsPlayer ==
    health = "failed" =>
        /\ Started("vlc") = {}
        /\ vlc_process = NoHandle
        /\ \E i \in 1..Len(out) :
              /\ out[i].tag = "yt-dlp failed to start"
              /\ out[i].text = procs[yt_process].diag

C1_Witness ==
    /\ health = "failed"
    /\ pc = "exited"
    /\ procs[yt_process].diag = "diag"

\* C2: on the long timeout the player first gets the graceful signal; it is
\* killed only after that signal and only if it outlived the grace period, so
\* that the player is dead when the uninterrupted sequence hands over to the
\* finally block; once the finally block has run to its end as well, neither
\* the player nor the producer is alive.
C2_TimeoutStopsBoth ==
    /\ timedOut => "timeout" \in procs[vlc_process].termBy
    /\ \A p \in Pids :
          "timeout" \in procs[p].killBy => "timeout" \in procs[p].termBy
    /\ (timedOut /\ handlerRuns = {} /\ pc \in FinallyPcs \cup {"exited"})
          => procs[vlc_process].st = "exited"
    /\ (timedOut /\ finallyDone)
          => /\ ~Alive(procs, yt_process)
             /\ ~Alive(procs, vlc_process)
             /\ Running("vlc") \cup Running("yt-dlp") = {}

C2_Witness ==
    /\ timedOut
    /\ finallyDone
    /\ "timeout" \in procs[vlc_process].killBy
    /\ "finally" \in procs[yt_process].killBy

\* C3: no process of the session receives a termination request from more
\* than one cleanup step (the signal handler, the timeout branch, the finally
\* block).
C3_TerminatedExactlyOnce ==
    \A p \in Pids : Cardinality(procs[p].termBy) <= 1

\* C4: when the signal handler has run and the finally block has then run to
\* its end, no termination call was made on a process that had already
\* exited, the program exits with status 0 and both processes are dead, which
\* is the state the finally block alone leaves.
C4_CleanupTwice ==
    (handlerRuns # {} /\ finallyDone) =>
        /\ \A p \in Pids : ~procs[p].badTerm
        /\ exitStatus = 0
        /\ ~Alive(procs, yt_process)
        /\ ~Alive(procs, vlc_process)

C4_Witness ==
    /\ handlerRuns = {"communicate"}
    /\ finallyDone
    /\ procs[yt_process].termBy = {"handler", "finally"}
    /\ procs[vlc_process].termBy = {"handler"}
    /\ procs[vlc_process].killBy = {}

\* the same final state is left by the finally block alone
C4_SingleRun ==
    (handlerRuns = {} /\ finallyDone) =>
        /\ \A p \in Pids : ~procs[p].badTerm
        /\ exitStatus = 0
        /\ ~Alive(procs, yt_process)
        /\ ~Alive(procs, vlc_process)

\* C5: once the signal handler has run, every process of the session that is
\* still running has received the handler's termination request.
C5_HandlerTerminatesAll ==
    handlerRuns # {} =>
        \A p \in Pids :
            procs[p].st = "running" => "handler" \in procs[p].termBy

\* the handler misses a process only when the signal arrives inside Popen
C5_OutsidePopen ==
    (handlerRuns # {} /\ handlerRuns \cap GapPcs = {}) =>
        \A p \in Pids :
            procs[p].st = "running" => "handler" \in procs[p].termBy

\* C6 as stated: whenever a player process has been started, a producer has
\* been started before it and has passed the startup health check.
C6_PlayerAfterProducer ==
    (prog = "loutube" /\ Started("vlc") # {}) =>
        /\ Started("yt-dlp") # {}
        /\ health = "passed"

\* C6 amended: a player that reads from the pipe is started only after the
\* producer has been started, bound and found alive by the health check; a
\* player without producer exists only on the direct-URL path of a live
\* stream (option 1), where it is given the URL and not a pipe.
C6_PipedPlayerAfterProducer ==
    \A p \in Started("vlc") :
        prog = "loutube" =>
        IF procs[p].stdin = "pipe"
        THEN /\ yt_process # NoHandle
             /\ procs[yt_process].kind = "yt-dlp"
             /\ health = "passed"
        ELSE /\ live
             /\ choice = "1"
             /\ Started("yt-dlp") = {}

C6_Witness ==
    /\ vlc_process # NoHandle
    /\ procs[vlc_process].stdin = "pipe"
    /\ health = "passed"
    /\ pc = "communicate"

C6_WitnessDirect ==
    /\ vlc_process # NoHandle
    /\ procs[vlc_process].stdin = "none"
    /\ Started("yt-dlp") = {}

\* C7: the controller closes its reference to the producer's output only
\* once a player has been spawned with that stream as its input, it has
\* closed it whenever it waits on the player, and it closes it at most once.
C7_PipeHandOver ==
    /\ ctlPipe = "closed" =>
          \E p \in Started("vlc") : procs[p].stdin = "pipe"
    /\ pc \in {"communicate", "timeout_wait", "yd_communicate"}
          => ctlPipe = "closed"
    /\ closes <= 1
    /\ closes = 1 <=> ctlPipe = "closed"

C7_Witness ==
    /\ pc \in {"communicate", "yd_communicate"}
    /\ ctlPipe = "closed"
    /\ procs[vlc_process].st = "running"
    /\ procs[yt_process].st = "running"

\* C8: at every moment at most one download process and at most one player
\* process of the session are running.
C8_AtMostOneEach ==
    /\ Cardinality(Running("yt-dlp")) <= 1
    /\ Cardinality(Running("vlc")) <= 1

C8_Witness ==
    /\ Cardinality(Running("yt-dlp")) = 1
    /\ Cardinality(Running("vlc")) = 1

\* C9: after the player has exited on its own, code 0 is reported as a
\* success, code 1 as a normal end, and any other code as an error together
\* with the diagnostic text the player wrote.
C9_ExitCodeReport ==
    (vlc_process # NoHandle /\ procs[vlc_process].stdin = "pipe"
       /\ handlerRuns = {} /\ ~timedOut /\ pc \in FinallyPcs \cup {"exited"})
    => LET code == procs[vlc_process].code
           diag == procs[vlc_process].diag
       IN  /\ code = 0 => Printed("completed successfully")
           /\ code = 1 => Printed("streaming ended")
           /\ code \notin {0, 1} =>
                 /\ \E i \in 1..Len(out) :
                       /\ out[i].tag = "VLC exited with code"
                       /\ out[i].code = code
                 /\ diag # "" =>
                       \E i \in 1..Len(out) :
                          /\ out[i].tag = "VLC error output"
                          /\ out[i].text = diag

\* C10: when a spawn fails for want of its executable, the error printed
\* names the missing program, and when the finally block has run no process
\* of the session is alive.
C10_DependencyError ==
    (prog = "loutube" /\ spawnFailed # "") =>
        /\ \E i \in 1..Len(out) :
              /\ out[i].tag = "not found"
              /\ out[i].text = spawnFailed
        /\ finallyDone => Running("vlc") \cup Running("yt-dlp") = {}

\* a process that ended on its own account, not by a signal of the controller
FailedAlone(p) ==
    /\ procs[p].st = "exited"
    /\ procs[p].termBy = {}
    /\ procs[p].killBy = {}
    /\ procs[p].diag # ""

\* C11: when, after the pipe was established, the producer ends with a
\* non-zero code or the player with a code other than 0 and 1, the text the
\* failed process wrote to its error stream is part of what watch_video
\* printed by the time it has finished.
C11_MidStreamFailureReported ==
    (prog = "loutube" /\ pc = "exited" /\ finallyDone /\ handlerRuns = {}
       /\ ~timedOut /\ health = "passed" /\ vlc_process # NoHandle) =>
        /\ (FailedAlone(yt_process) /\ procs[yt_process].code # 0) =>
              \E i \in 1..Len(out) : out[i].text = procs[yt_process].diag
        /\ (FailedAlone(vlc_process) /\ procs[vlc_process].code \notin {0, 1})
              => \E i \in 1..Len(out) : out[i].text = procs[vlc_process].diag

\* C13: in youtube_downloader.py, when watch_video returns after a failure
\* that followed the start of the download process (player missing,
\* interrupt), neither the download process nor the player is running.
C13_YdNoOrphans ==
    (prog = "youtube_downloader" /\ pc = "returned"
       /\ yt_process # NoHandle /\ (spawnFailed # "" \/ nsig > 0)) =>
        /\ out # <<>>
        /\ Running("yt-dlp") \cup Running("vlc") = {}

-----------------------------------------------------------------------------
(* Text: a Python str is a sequence of one-character strings *)

MaxOf(S) == CHOOSE x \in S : \A y \in S : y <= x

MinOf(S) == CHOOSE x \in S : \A y \in S : x <= y

IsSpace(c) == c \in {" ", "\t", "\n"}

Digits == <<"0", "1", "2", "3", "4", "5", "6", "7", "8", "9">>

IsDigit(c) == \E d \in 1..10 : Digits[d] = c

DigitValue(c) == (CHOOSE d \in 1..10 : Digits[d] = c) - 1

UpperCase ==
    <<"A", "B", "C", "D", "E", "F", "G", "H", "I", "J", "K", "L", "M", "N",
      "O", "P", "Q", "R", "S", "T", "U", "V", "W", "X", "Y", "Z">>

LowerCase ==
    <<"a", "b", "c", "d", "e", "f", "g", "h", "i", "j", "k", "l", "m", "n",
      "o", "p", "q", "r", "s", "t", "u", "v", "w", "x", "y", "z">>

\* str.lower(), character by character
LowerChar(c) ==
    IF \E k \in 1..26 : UpperCase[k] = c
    THEN LowerCase[CHOOSE k \in 1..26 : UpperCase[k] = c]
    ELSE c

Lower(s) == [i \in 1..Len(s) |-> LowerChar(s[i])]

\* str.strip()
Strip(s) ==
    LET keep == {i \in 1..Len(s) : ~IsSpace(s[i])}
    IN  IF keep = {} THEN <<>> ELSE SubSeq(s, MinOf(keep), MaxOf(keep))

\* `sub in s`
Contains(s, sub) ==
    \E i \in 1..(Len(s) - Len(sub) + 1) : SubSeq(s, i, i + Len(sub) - 1) = sub

\* the character classes of the two patterns: \s, [^\s] and [0-9.]
InClass(c, cls) ==
    CASE cls = "space" -> IsSpace(c)
      [] cls = "nonspace" -> ~IsSpace(c)
      [] cls = "numdot" -> IsDigit(c) \/ c = "."

\* last index of the longest run of characters of a class that starts at i
\* (i - 1 when the run is empty)
RunEnd(s, i, cls) ==
    MinOf({j \in i..Len(s) : ~InClass(s[j], cls)} \cup {Len(s) + 1}) - 1

Lit(v) == [t |-> "lit", v |-> v, c |-> "", g |-> FALSE]
Plus(cls) == [t |-> "plus", v |-> <<>>, c |-> cls, g |-> FALSE]
Star(cls) == [t |-> "star", v |-> <<>>, c |-> cls, g |-> FALSE]
Group(cls) == [t |-> "plus", v |-> <<>>, c |-> cls, g |-> TRUE]

NoMatch == [ok |-> FALSE, groups |-> <<>>]

\* re.match of a pattern (a sequence of literals and quantified classes)
\* at position i.  In the patterns of parse_progress_line every quantified
\* class is followed by a character outside the class or by the end of the
\* pattern, so the greedy match is the longest run and never backtracks.
RECURSIVE MatchFrom(_, _, _, _, _)
MatchFrom(pat, k, s, i, groups) ==
    IF k > Len(pat) THEN [ok |-> TRUE, groups |-> groups]
    ELSE LET e == pat[k] IN
         IF e.t = "lit"
         THEN IF /\ i + Len(e.v) - 1 <= Len(s)
                 /\ SubSeq(s, i, i + Len(e.v) - 1) = e.v
              THEN MatchFrom(pat, k + 1, s, i + Len(e.v), groups)
              ELSE NoMatch
         ELSE LET j == RunEnd(s, i, e.c) IN
              IF e.t = "plus" /\ j < i THEN NoMatch
              ELSE MatchFrom(pat, k + 1, s, j + 1,
                             IF e.g THEN Append(groups, SubSeq(s, i, j))
                             ELSE groups)

\* re.search: the match at the leftmost position where the pattern matches
Search(pat, s) ==
    LET hits == {i \in 1..Len(s) : MatchFrom(pat, 1, s, i, <<>>).ok}
    IN  IF hits = {} THEN NoMatch ELSE MatchFrom(pat, 1, s, MinOf(hits), <<>>)

-----------------------------------------------------------------------------
(* parse_progress_line and draw_progress_counter *)

Str_Downloaded ==
    <<"D", "o", "w", "n", "l", "o", "a", "d", "e", "d">>

Str_of ==
    <<"o", "f">>

Str_at ==
    <<"a", "t">>

Str_ETA ==
    <<"E", "T", "A">>

Str_Unknown ==
    <<"U", "n", "k", "n", "o", "w", "n">>

Str_NA ==
    <<"N", "/", "A">>

Str_Progress ==
    <<"P", "r", "o", "g", "r", "e", "s", "s", ":", " ">>

Str_download ==
    <<"[", "d", "o", "w", "n", "l", "o", "a", "d", "]">>

Keywords ==
    {<<"e", "r", "r", "o", "r">>,
     <<"w", "a", "r", "n", "i", "n", "g">>,
     <<"f", "i", "n", "i", "s", "h", "e", "d">>,
     <<"c", "o", "m", "p", "l", "e", "t", "e">>}

Str_Interrupted ==
    <<"D", "o", "w", "n", "l", "o", "a", "d", " ", "i", "n", "t", "e", "r",
      "r", "u", "p", "t", "e", "d", " ", "b", "y", " ", "u", "s", "e", "r",
      ".">>

\* Downloaded\s+([^\s]+)\s+of\s+([^\s]+)\s+\(([0-9.]+)%\)\s+at\s+([^\s]+)\s+ETA\s+([^\s]+)
PrimaryPattern ==
    <<Lit(Str_Downloaded), Plus("space"), Group("nonspace"), Plus("space"),
      Lit(Str_of), Plus("space"), Group("nonspace"), Plus("space"),
      Lit(<<"(">>), Group("numdot"), Lit(<<"%", ")">>), Plus("space"),
      Lit(Str_at), Plus("space"), Group("nonspace"), Plus("space"),
      Lit(Str_ETA), Plus("space"), Group("nonspace")>>

\* Downloaded\s+([^\s]+)\s+of\s+([^\s]+)\s+\(\s*([0-9.]+)%\s*\)
SecondaryPattern ==
    <<Lit(Str_Downloaded), Plus("space"), Group("nonspace"), Plus("space"),
      Lit(Str_of), Plus("space"), Group("nonspace"), Plus("space"),
      Lit(<<"(">>), Star("space"), Group("numdot"), Lit(<<"%">>),
      Star("space"), Lit(<<")">>)>>

\* at\s+([^\s]+)
SpeedPattern == <<Lit(Str_at), Plus("space"), Group("nonspace")>>

\* ETA\s+([^\s]+)
EtaPattern == <<Lit(Str_ETA), Plus("space"), Group("nonspace")>>

RECURSIVE DigitsValue(_)
DigitsValue(s) ==
    IF s = <<>> THEN 0
    ELSE 10 * DigitsValue(SubSeq(s, 1, Len(s) - 1)) + DigitValue(s[Len(s)])

\* float() of a string of digits and dots: a ValueError unless there is at
\* most one dot and at least one digit.  The value is kept in tenths of a
\* percent: the lines of Lines carry at most one fractional digit.
ParseFloat(s) ==
    LET dots == {i \in 1..Len(s) : s[i] = "."}
        dot == IF dots = {} THEN Len(s) + 1 ELSE MinOf(dots)
        whole == SubSeq(s, 1, dot - 1)
        frac == SubSeq(s, dot + 1, Len(s))
    IN  IF Cardinality(dots) > 1 \/ Len(s) - Cardinality(dots) = 0
        THEN [ok |-> FALSE, tenths |-> 0]
        ELSE [ok |-> TRUE,
              tenths |-> 10 * DigitsValue(whole)
                           + (IF frac = <<>> THEN 0 ELSE DigitValue(frac[1]))]

NoneResult ==
    [kind |-> "none", percentage |-> 0, downloaded |-> <<>>, total |-> <<>>,
     speed |-> <<>>, eta |-> <<>>]

ValueError == [NoneResult EXCEPT !.kind = "ValueError"]

Sample(number, downloaded, total, speed, eta) ==
    IF ~ParseFloat(number).ok THEN ValueError
    ELSE [kind |-> "sample", percentage |-> ParseFloat(number).tenths,
          downloaded |-> downloaded, total |-> total, speed |-> speed,
          eta |-> eta]

parse_progress_line(line) ==
    LET match == Search(PrimaryPattern, line)
        match2 == Search(SecondaryPattern, line)
        speed_match == Search(SpeedPattern, line)
        eta_match == Search(EtaPattern, line)
    IN  IF match.ok
        THEN Sample(match.groups[3], match.groups[1], match.groups[2],
                    match.groups[4], match.groups[5])
        ELSE IF match2.ok
        THEN Sample(match2.groups[3], match2.groups[1], match2.groups[2],
                    IF speed_match.ok THEN speed_match.groups[1]
                    ELSE Str_Unknown,
                    IF eta_match.ok THEN eta_match.groups[1] ELSE Str_Unknown)
        ELSE NoneResult

\* max(0, min(100, percentage)), in tenths
Clamp(percentage) ==
    IF percentage > 1000 THEN 1000 ELSE IF percentage < 0 THEN 0 ELSE percentage

RECURSIVE IntToChars(_)
IntToChars(n) ==
    IF n < 10 THEN <<Digits[n + 1]>>
    ELSE Append(IntToChars(n \div 10), Digits[(n % 10) + 1])

Spaces(n) == [i \in 1..n |-> " "]

\* f"{percentage:6.1f}": one fractional digit, right-aligned in six columns
Format61(tenths) ==
    LET text == IntToChars(tenths \div 10) \o <<".">> \o <<Digits[(tenths % 10) + 1]>>
    IN  Spaces(IF Len(text) < 6 THEN 6 - Len(text) ELSE 0) \o text

\* the progress_line that draw_progress_counter builds
progress_line(percentage, speed, eta, downloaded, total) ==
    Str_Progress \o Format61(Clamp(percentage)) \o <<"%">>
      \o (IF downloaded # <<>> /\ total # <<>> /\ total # Str_NA
          THEN <<" ", "(">> \o downloaded \o <<"/">> \o total \o <<")">>
          ELSE IF downloaded # <<>>
          THEN <<" ", "(">> \o downloaded \o <<")">>
          ELSE <<>>)
      \o (IF speed # <<>> /\ speed # Str_Unknown
          THEN <<" ">> \o Str_at \o <<" ">> \o speed ELSE <<>>)
      \o (IF eta # <<>> /\ eta \notin {Str_Unknown, Str_NA}
          THEN <<" ">> \o Str_ETA \o <<" ">> \o eta ELSE <<>>)

\* no padding at all
Padding_None(previous_length, text) == <<>>

\* padding = " " * max(0, previous_length - len(progress_line))
Padding(previous_length, text) ==
    Spaces(IF previous_length > Len(text) THEN previous_length - Len(text)
           ELSE 0)

-----------------------------------------------------------------------------
(* run_with_progress_counter: the terminal, the child's output, the loop *)

MaxLines == 3

\* The lines the child may write, each as readline returns it: progress
\* lines of the primary shape (a long one, a short one with the N/A and
\* Unknown sentinels, one above 100 percent, one whose number is not a
\* number), one of the secondary shape only, a plain message with blanks
\* around it, download-info lines with and without a keyword, and a blank
\* line.
Lines ==
    {<<"D", "o", "w", "n", "l", "o", "a", "d", "e", "d", " ", "1", "M",
       " ", "o", "f", " ", "9", "M", " ", "(", "2", "7", ".", "5", "%",
       ")", " ", "a", "t", " ", "1", "M", "/", "s", " ", "E", "T", "A",
       " ", "0", "0", ":", "3", "0", "\n">>,
     <<"D", "o", "w", "n", "l", "o", "a", "d", "e", "d", " ", "2", "M",
       " ", "o", "f", " ", "N", "/", "A", " ", "(", "5", "%", ")", " ",
       "a", "t", " ", "U", "n", "k", "n", "o", "w", "n", " ", "E", "T",
       "A", " ", "N", "/", "A", "\n">>,
     <<"D", "o", "w", "n", "l", "o", "a", "d", "e", "d", " ", "9", "M",
       " ", "o", "f", " ", "9", "M", " ", "(", "1", "5", "0", "%", ")",
       " ", "a", "t", " ", "1", "M", "/", "s", " ", "E", "T", "A", " ",
       "0", "\n">>,
     <<"D", "o", "w", "n", "l", "o", "a", "d", "e", "d", " ", "1", "M",
       " ", "o", "f", " ", "9", "M", " ", "(", "1", ".", "2", ".", "3",
       "%", ")", " ", "a", "t", " ", "1", "M", "/", "s", " ", "E", "T",
       "A", " ", "0", "\n">>,
     <<"D", "o", "w", "n", "l", "o", "a", "d", "e", "d", " ", "3", "M",
       " ", "o", "f", " ", "9", "M", " ", "(", " ", "5", "0", "%", " ",
       ")", "\n">>,
     <<" ", " ", "E", "x", "t", "r", "a", "c", "t", "i", "n", "g", " ",
       "a", "u", "d", "i", "o", " ", "\n">>,
     <<"[", "d", "o", "w", "n", "l", "o", "a", "d", "]", " ", "D", "e",
       "s", "t", "i", "n", "a", "t", "i", "o", "n", ":", " ", "a", "\n">>,
     <<"[", "D", "o", "w", "n", "l", "o", "a", "d", "]", " ", "E", "R",
       "R", "O", "R", ":", " ", "x", "\n">>,
     <<"D", "o", "w", "n", "l", "o", "a", "d", "e", "d", " ", "o", "k",
       "\n">>,
     <<" ", " ", "\n">>}

RECURSIVE InputsOfLength(_)
InputsOfLength(n) ==
    IF n = 0 THEN {<<>>}
    ELSE {Append(i, l) : i \in InputsOfLength(n - 1), l \in Lines}

Inputs == UNION {InputsOfLength(n) : n \in 0..MaxLines}

Last(s) == s[Len(s)]

Cell(c, src) == [ch |-> c, src |-> src]

\* "\r": the cursor returns to column 0 of its row
CarriageReturn(t) == [t EXCEPT !.col = 0]

\* "\n": the cursor moves to the start of a fresh row
NewLine(t) == [screen |-> Append(t.screen, <<>>), col |-> 0]

\* printable characters: each overwrites the cell under the cursor and
\* advances it
WriteText(t, chars, src) ==
    LET row == Last(t.screen)
        end == t.col + Len(chars)
        width == IF Len(row) > end THEN Len(row) ELSE end
    IN  [screen |-> [t.screen EXCEPT ![Len(t.screen)] =
                        [i \in 1..width |->
                            IF t.col < i /\ i <= end
                            THEN Cell(chars[i - t.col], src)
                            ELSE row[i]]],
         col |-> end]

\* print(line)
PrintLine(t, line) == NewLine(WriteText(t, line, "message"))

\* what draw_progress_counter writes: "\r" + progress_line + padding
Draw(t, sample, previous_length) ==
    LET text == progress_line(sample.percentage, sample.speed, sample.eta,
                              sample.downloaded, sample.total)
    IN  WriteText(WriteText(CarriageReturn(t), text, "counter"),
                  Padding(previous_length, text), "pad")

\* only the branch of line 126
ShouldPrint_NoKeywords(line) ==
    ~Contains(line, Str_Downloaded) /\ ~Contains(Lower(line), Str_download)

\* the branches of lines 126 and 134: a line that is not a progress line is
\* printed when it carries neither 'Downloaded' nor '[download]', or when it
\* carries one of the keywords
ShouldPrint(line) ==
    \/ ~Contains(line, Str_Downloaded) /\ ~Contains(Lower(line), Str_download)
    \/ \E keyword \in Keywords : Contains(Lower(line), keyword)

\* the message is printed where the cursor stands
BreakLine_Never(t, progress) == t

\* lines 127-131 and 135-139: leave the row of the counter before printing
BreakLine(t, progress) ==
    IF progress THEN NewLine(t) ELSE t

\* no final newline
FinalNewline_Never(t, progress) == t

\* lines 146-149: the final newline after a counter
FinalNewline(t, progress) ==
    IF progress THEN NewLine(t) ELSE t

Term == [screen |-> screen, col |-> col]

\* run_with_progress_counter is about to be called; the cursor is at the
\* start of an empty row
InitProgress ==
    /\ prog = "loutube"
    /\ pc = "rp_popen"
    /\ live = FALSE
    /\ choice = "2"
    /\ procs = [p \in Pids |-> NoProc]
    /\ yt_process = NoHandle /\ vlc_process = NoHandle
    /\ newborn = NoHandle /\ run_process = NoHandle
    /\ ctlPipe = "none" /\ closes = 0 /\ stderr_pipe = 0
    /\ out = <<>>
    /\ nsig = 0 /\ handlerRuns = {}
    /\ health = "unchecked" /\ timedOut = FALSE
    /\ spawnFailed = "" /\ finallyDone = FALSE
    /\ exitStatus = NoStatus
    /\ input \in Inputs
    /\ process = NoHandle
    /\ had_progress = FALSE
    /\ prev_length = 0
    /\ screen = <<<<>>>>
    /\ col = 0
    /\ log = <<>>
    /\ raised = ""
    /\ MainIdle
    /\ CookiesIdle
    /\ ValidateIdle

streamRest == <<prog, live, choice, yt_process, vlc_process, newborn,
                run_process, ctlPipe, closes, out, nsig, handlerRuns, health,
                timedOut, spawnFailed, finallyDone, exitStatus, mainVars,
                cookieVars, validateVars, stderr_pipe>>

\* line 93: the executable is missing; Popen raises before the try
RpPopenFails ==
    /\ pc = "rp_popen"
    /\ raised' = "FileNotFoundError"
    /\ pc' = "rp_raised"
    /\ UNCHANGED <<streamRest, procs, input, process, had_progress,
                   prev_length, screen, col, log>>

\* lines 93-103
RpPopen ==
    /\ pc = "rp_popen"
    /\ procs' = Popen(procs, "yt-dlp", "none", "STDOUT")
    /\ process' = NewPid(procs)
    /\ prev_length' = 0
    /\ had_progress' = FALSE
    /\ pc' = "rp_read"
    /\ UNCHANGED <<streamRest, input, screen, col, log, raised>>

\* lines 106-140: one turn of the loop on the next line of the child
RpReadLine ==
    /\ pc = "rp_read"
    /\ input # <<>>
    /\ input' = Tail(input)
    /\ LET line == Strip(Head(input))
           progress_info == parse_progress_line(line)
           drawn == Draw(Term, progress_info, prev_length)
           shown == PrintLine(BreakLine(Term, had_progress), line)
       IN  IF line = <<>>
           THEN UNCHANGED <<pc, had_progress, prev_length, screen, col, log,
                            raised>>
           ELSE /\ log' = Append(log, [line |-> line, result |-> progress_info])
                /\ CASE progress_info.kind = "ValueError" ->
                          /\ raised' = "ValueError"
                          /\ pc' = "rp_raised"
                          /\ UNCHANGED <<had_progress, prev_length, screen, col>>
                     [] progress_info.kind = "sample" ->
                          /\ screen' = drawn.screen
                          /\ col' = drawn.col
                          /\ prev_length' =
                               Len(progress_line(progress_info.percentage,
                                                 progress_info.speed,
                                                 progress_info.eta,
                                                 progress_info.downloaded,
                                                 progress_info.total))
                          /\ had_progress' = TRUE
                          /\ UNCHANGED <<pc, raised>>
                     [] progress_info.kind = "none" /\ ShouldPrint(line) ->
                          /\ screen' = shown.screen
                          /\ col' = shown.col
                          /\ prev_length' = IF had_progress THEN 0
                                            ELSE prev_length
                          /\ had_progress' = FALSE
                          /\ UNCHANGED <<pc, raised>>
                     [] OTHER ->
                          UNCHANGED <<pc, had_progress, prev_length, screen,
                                      col, raised>>
    /\ UNCHANGED <<streamRest, procs, process>>

\* lines 142-151: end of the child's output, process.wait(), the final
\* newline and the return of the child's return code
RpEof ==
    /\ pc = "rp_read"
    /\ input = <<>>
    /\ \E code \in ExitCodes :
          procs' = [procs EXCEPT ![process].st = "exited",
                                 ![process].code = code]
    /\ LET t == FinalNewline(Term, had_progress)
       IN  screen' = t.screen /\ col' = t.col
    /\ prev_length' = IF had_progress THEN 0 ELSE prev_length
    /\ pc' = "rp_done"
    /\ UNCHANGED <<streamRest, input, process, had_progress, log, raised>>

\* lines 153-154: Ctrl-C while reading; the handler sends SIGTERM to the
\* child and starts to wait for it
RpInterrupt ==
    /\ pc = "rp_read"
    /\ procs' = Terminate(procs, process, "interrupt")
    /\ nsig' = nsig + 1
    /\ pc' = "rp_wait"
    /\ UNCHANGED <<prog, live, choice, yt_process, vlc_process, newborn,
                   run_process, ctlPipe, closes, out, handlerRuns, health,
                   timedOut, spawnFailed, finallyDone, exitStatus, mainVars,
                   cookieVars, validateVars, stderr_pipe, progressVars>>

\* lines 155-159: the child has exited on the SIGTERM, process.wait()
\* returns, the message is written and KeyboardInterrupt is raised again.
\* A child that ignores SIGTERM keeps the controller here.
RpWaited ==
    /\ pc = "rp_wait"
    /\ procs' = [procs EXCEPT ![process].st = "exited",
                              ![process].code = -SIGTERM]
    /\ LET t == NewLine(WriteText(NewLine(Term), Str_Interrupted, "message"))
       IN  screen' = t.screen /\ col' = t.col
    /\ prev_length' = 0
    /\ raised' = "KeyboardInterrupt"
    /\ pc' = "rp_raised"
    /\ UNCHANGED <<streamRest, input, process, had_progress, log>>

\* line 155: a second Ctrl-C while process.wait() is waiting inside the
\* except clause; nothing catches it there, so it leaves the function with
\* the child as it is
RpInterruptWait ==
    /\ pc = "rp_wait"
    /\ nsig < MaxSignals
    /\ nsig' = nsig + 1
    /\ raised' = "KeyboardInterrupt"
    /\ pc' = "rp_raised"
    /\ UNCHANGED <<prog, live, choice, yt_process, vlc_process, newborn,
                   run_process, ctlPipe, closes, out, handlerRuns, health,
                   timedOut, spawnFailed, finallyDone, exitStatus, mainVars,
                   cookieVars, validateVars, stderr_pipe, procs, input,
                   process, had_progress, prev_length, screen, col, log>>

NextProgress ==
    \/ RpPopenFails
    \/ RpPopen
    \/ RpReadLine
    \/ RpEof
    \/ RpInterrupt
    \/ RpWaited
    \/ RpInterruptWait

SpecProgress == InitProgress /\ [][NextProgress]_vars

-----------------------------------------------------------------------------
(* Properties of the progress parser and renderer *)

RowText(row) == [i \in 1..Len(row) |-> row[i].ch]

IsMessageRow(row) == row # <<>> /\ \A i \in 1..Len(row) : row[i].src = "message"

\* the texts of the rows that print() filled, top to bottom
MessageTexts ==
    LET rows == SelectSeq(screen, IsMessageRow)
    IN  [i \in 1..Len(rows) |-> RowText(rows[i])]

IsNoMatch(entry) == entry.result.kind = "none"

\* the lines of the log on which the parser returned no match
NoMatchLines ==
    LET entries == SelectSeq(log, IsNoMatch)
    IN  [i \in 1..Len(entries) |-> entries[i].line]

\* C14: every line that matches the primary pattern yields a sample, never
\* an exception, and the sample's percentage is the matched number clamped
\* to [0, 100]
C14_PrimaryPercentageClamped ==
    \A i \in 1..Len(log) :
        LET match == Search(PrimaryPattern, log[i].line) IN
        match.ok =>
            /\ log[i].result.kind = "sample"
            /\ log[i].result.percentage
                 = Clamp(ParseFloat(match.groups[3]).tenths)

\* C15 as stated: every non-empty line without a match is printed verbatim
\* exactly once, whatever words it contains
C15_EveryNonProgressLinePrinted ==
    raised # "KeyboardInterrupt" => MessageTexts = NoMatchLines

Marked(line) ==
    \/ \E i \in 1..Len(line) :
          i + 9 <= Len(line) /\ SubSeq(line, i, i + 9) = Str_Downloaded
    \/ \E i \in 1..Len(line) :
          i + 9 <= Len(line) /\ Lower(SubSeq(line, i, i + 9)) = Str_download

HasKeyword(line) ==
    \E i \in 1..Len(line), j \in 1..Len(line) :
        Lower(SubSeq(line, i, j)) \in Keywords

Dropped(line) == Marked(line) /\ ~HasKeyword(line)

Kept(line) == ~Dropped(line)

\* C15 amended: the rows printed are, in order and verbatim, exactly the
\* no-match lines that carry neither 'Downloaded' nor '[download]' (in any
\* letter case), or that carry one of the keywords error, warning, finished,
\* complete (in any letter case); the other no-match lines are dropped
C15_UnmarkedOrKeywordLinesPrinted ==
    raised # "KeyboardInterrupt" =>
        MessageTexts = SelectSeq(NoMatchLines, Kept)

\* a marked line was dropped, a marked line with a keyword was printed
C15_Witness ==
    /\ pc = "rp_done"
    /\ \E i \in 1..Len(NoMatchLines) : Dropped(NoMatchLines[i])
    /\ \E i \in 1..Len(NoMatchLines) :
          Marked(NoMatchLines[i]) /\ HasKeyword(NoMatchLines[i])
    /\ Len(MessageTexts) = 1

HasSrc(row, srcs) == \E i \in 1..Len(row) : row[i].src \in srcs

\* C16: a message is never printed on the row of a progress counter, and
\* once the counter's row has been left the remembered length is 0, so the
\* next counter gets no padding from the old one
C16_MessageOnFreshLine ==
    /\ \A r \in 1..Len(screen) :
          ~(HasSrc(screen[r], {"counter", "pad"})
              /\ HasSrc(screen[r], {"message"}))
    /\ (pc = "rp_read" /\ ~had_progress) => prev_length = 0
    /\ (pc = "rp_read" /\ had_progress) => HasSrc(Last(screen), {"counter"})

\* a counter, then a printed message on a row of its own, then a shorter
\* counter on a third row, drawn without padding
C16_Witness ==
    /\ pc = "rp_read"
    /\ Len(screen) = 3
    /\ HasSrc(screen[1], {"counter"})
    /\ HasSrc(screen[2], {"message"})
    /\ HasSrc(screen[3], {"counter"})
    /\ Len(screen[3]) < Len(screen[1])
    /\ ~HasSrc(screen[3], {"pad"})

IsSample(entry) == entry.result.kind = "sample"

\* the text of the counter drawn last
LastText ==
    LET sample == Last(SelectSeq(log, IsSample)).result
    IN  progress_line(sample.percentage, sample.speed, sample.eta,
                      sample.downloaded, sample.total)

\* what a row shows: its characters up to the last one that is not blank
Visible(row) ==
    LET inked == {i \in 1..Len(row) : row[i].ch # " "}
    IN  IF inked = {} THEN <<>> ELSE SubSeq(RowText(row), 1, MaxOf(inked))

\* C17: after every render the row of the counter shows exactly the new
\* progress text; what a longer previous text left behind is blank
C17_VisibleLineIsNewText ==
    (pc = "rp_read" /\ had_progress) => Visible(Last(screen)) = LastText

\* a shorter counter was drawn over a longer one and padded
C17_Witness ==
    /\ pc = "rp_read"
    /\ had_progress
    /\ HasSrc(Last(screen), {"pad"})
    /\ Len(LastText) < Len(Last(screen))

\* C18: when run_with_progress_counter returns, the cursor is at the start
\* of an empty row
C18_CursorOnFreshLine ==
    pc = "rp_done" => (col = 0 /\ Last(screen) = <<>>)

\* the function returned after a counter followed by a dropped line
C18_Witness ==
    /\ pc = "rp_done"
    /\ log # <<>>
    /\ IsNoMatch(Last(log)) /\ Dropped(Last(log).line)
    /\ \E r \in 1..Len(screen) : HasSrc(screen[r], {"counter"})
    /\ MessageTexts = <<>>

-----------------------------------------------------------------------------
(* main, the prompts and the operations it calls *)

MaxMessages == 2

Str_99 == <<"9", "9">>

Str_1 == <<"1">>

Str_2 == <<"2">>

Str_3 == <<"3">>

Str_4 == <<"4">>

Str_5 == <<"5">>

Str_y == <<"y">>

\* what the user may type at a prompt
Typed ==
    {Str_99, <<" ", "9", "9", " ">>, Str_1, Str_2, Str_3, Str_4, Str_5,
     Str_y, <<>>}

\* check_for_quit never quits
CheckForQuit_Never(user_input) == FALSE

\* check_for_quit: `user_input.strip() == "99"`
CheckForQuit(user_input) == Strip(user_input) = Str_99

\* what a subprocess.run(..., check=True) call can end in
RunOutcomes == {"ok", "CalledProcessError", "FileNotFoundError",
                "KeyboardInterrupt"}

\* the same with timeout=...
TimedRunOutcomes == RunOutcomes \cup {"TimeoutExpired"}

\* what a call of run_with_progress_counter can end in: the return code of
\* the child, or one of the exceptions that leave it
ProgressOutcomes == {"returned 0", "returned 1", "FileNotFoundError",
                     "KeyboardInterrupt", "ValueError"}

\* the except clauses around the subprocess call of each operation
Catches(program, f) ==
    CASE f = "check_dependencies" -> {"FileNotFoundError"}
      [] f = "check_ffmpeg" ->
           {"CalledProcessError", "FileNotFoundError", "TimeoutExpired"}
      [] f = "download_video" /\ program = "loutube" ->
           {"CalledProcessError", "KeyboardInterrupt"}
      [] f \in {"show_basic_metadata", "show_full_metadata"} ->
           {"TimeoutExpired", "Exception"}
      [] OTHER -> {"CalledProcessError"}

\* `except Exception` takes every exception but KeyboardInterrupt and
\* SystemExit
Caught(e, handlers) ==
    \/ e \in handlers
    \/ "Exception" \in handlers /\ e \notin {"KeyboardInterrupt", "SystemExit"}

GifOperations == {"convert_to_gif", "add_padding"}

\* main is called; nothing has been typed
InitMain ==
    /\ prog \in Programs
    /\ pc = "m_deps"
    /\ live = FALSE
    /\ choice = ""
    /\ procs = [p \in Pids |-> NoProc]
    /\ yt_process = NoHandle /\ vlc_process = NoHandle
    /\ newborn = NoHandle /\ run_process = NoHandle
    /\ ctlPipe = "none" /\ closes = 0 /\ stderr_pipe = 0
    /\ out = <<>>
    /\ nsig = 0 /\ handlerRuns = {}
    /\ health = "unchecked" /\ timedOut = FALSE
    /\ spawnFailed = "" /\ finallyDone = FALSE
    /\ exitStatus = NoStatus
    /\ ProgressIdle
    /\ MainIdle
    /\ CookiesIdle
    /\ ValidateIdle

mainRest == <<prog, live, choice, procs, yt_process, vlc_process, newborn,
              run_process, ctlPipe, closes, nsig, handlerRuns, health,
              timedOut, spawnFailed, finallyDone, input, process,
              had_progress, prev_length, screen, col, log, cookieVars,
              validateVars, stderr_pipe>>

\* main returns and the interpreter exits with status 0
MainReturns(messages) ==
    /\ out' = out \o messages
    /\ pc' = "exited"
    /\ exitStatus' = 0
    /\ UNCHANGED raised

\* the exception leaves main: a traceback and a nonzero status
Propagate(e) ==
    /\ raised' = e
    /\ pc' = "crashed"
    /\ exitStatus' = 1
    /\ UNCHANGED out

\* the operation goes on at `next`
GoOn(next, messages) ==
    /\ pc' = next
    /\ out' = out \o messages
    /\ UNCHANGED <<exitStatus, raised>>

\* safe_input: input(), then check_for_quit; sys.exit(0) raises SystemExit,
\* which no except clause of the program takes
SafeInput(text, continue) ==
    /\ typed' = text
    /\ asked' = "safe_input"
    /\ IF CheckForQuit(text)
       THEN /\ MainReturns(<<Msg("goodbye", "", 0)>>)
            /\ UNCHANGED fn
       ELSE continue

\* check_dependencies, first statement of main
MainCheckDependencies ==
    /\ pc = "m_deps"
    /\ \E outcome \in RunOutcomes :
          IF outcome = "ok" THEN GoOn("m_choice", <<>>)
          ELSE IF Caught(outcome, Catches(prog, "check_dependencies"))
          THEN MainReturns(<<Msg("not found", "yt-dlp", 0)>>)
          ELSE Propagate(outcome)
    /\ UNCHANGED <<mainRest, mainVars>>

\* the menu of main without a URL on the command line
MainChoice ==
    /\ pc = "m_choice"
    /\ \E text \in Typed :
          LET c == Strip(text)
              valid == IF prog = "loutube"
                       THEN {Str_1, Str_2, Str_3, Str_4, Str_5, Str_99}
                       ELSE {Str_1, Str_2, Str_99}
          IN  SafeInput(text,
                IF c \notin valid
                THEN MainReturns(<<Msg("invalid", "choice", 0)>>)
                       /\ UNCHANGED fn
                ELSE /\ GoOn(CASE c = Str_3 /\ prog = "loutube" -> "e_ffmpeg"
                               [] c = Str_4 /\ prog = "loutube" -> "f_path"
                               [] c = Str_5 /\ prog = "loutube" -> "a_play"
                               [] OTHER -> "m_url", <<>>)
                     /\ fn' = IF c = Str_2 THEN "download_audio" ELSE "")
    /\ UNCHANGED <<mainRest, palette>>

\* "Enter the link: "
MainUrl ==
    /\ pc = "m_url"
    /\ \E text \in Typed :
          SafeInput(text,
            /\ IF Strip(text) = <<>>
               THEN MainReturns(<<Msg("error", "No URL provided", 0)>>)
               ELSE GoOn(IF fn = "download_audio" THEN "m_detail" ELSE "m_opt",
                         <<>>)
            /\ UNCHANGED fn)
    /\ UNCHANGED <<mainRest, palette>>

\* the kind of video download
MainOpt ==
    /\ pc = "m_opt"
    /\ \E text \in Typed :
          LET opt == Strip(text) IN
          SafeInput(text,
            CASE opt = Str_1 ->
                   GoOn("m_detail", <<>>) /\ fn' = "download_video"
              [] opt = Str_2 ->
                   GoOn("m_detail", <<>>) /\ fn' = "download_video_no_audio"
              [] opt = Str_3 ->
                   GoOn("m_detail", <<>>) /\ fn' = "download_audio_from_video"
              [] OTHER ->
                   MainReturns(<<Msg("invalid", "option", 0)>>)
                     /\ UNCHANGED fn)
    /\ UNCHANGED <<mainRest, palette>>

\* the prompts of the download operation itself (title, folder, directory):
\* each is a safe_input
DownloadPrompt ==
    /\ pc = "m_detail"
    /\ \E text \in Typed :
          SafeInput(text, GoOn("m_download", <<>>) /\ UNCHANGED fn)
    /\ UNCHANGED <<mainRest, palette>>

\* the subprocess call of the download operation inside its try statement:
\* run_with_progress_counter in loutube.py, subprocess.run(check=True) in
\* youtube_downloader.py
Download ==
    /\ pc = "m_download"
    /\ \E outcome \in IF prog = "loutube" THEN ProgressOutcomes
                      ELSE RunOutcomes :
          IF outcome \in {"ok", "returned 0"}
          THEN MainReturns(<<Msg("done", fn, 0)>>)
          ELSE IF outcome = "returned 1"
          THEN MainReturns(<<Msg("error", fn, 1)>>)
          ELSE IF Caught(outcome, Catches(prog, fn))
          THEN MainReturns(<<Msg("error", outcome, 0)>>)
          ELSE Propagate(outcome)
    /\ UNCHANGED <<mainRest, mainVars>>

\* video_editor_menu: check_ffmpeg
EditorCheckFfmpeg ==
    /\ pc = "e_ffmpeg"
    /\ \E outcome \in TimedRunOutcomes :
          IF outcome = "ok" THEN GoOn("e_select", <<>>)
          ELSE IF Caught(outcome, Catches(prog, "check_ffmpeg"))
          THEN MainReturns(<<Msg("not found", "ffmpeg", 0)>>)
          ELSE Propagate(outcome)
    /\ UNCHANGED <<mainRest, mainVars>>

\* select_video_file, first prompt (lines 2218-2224): where to look for the
\* file.  The branch `choice == "99"` returns None, as an invalid choice
\* does, and video_editor_menu then breaks out of its loop and returns.
EditorSelectFile ==
    /\ pc = "e_select"
    /\ Len(out) < MaxMessages
    /\ \E text \in Typed :
          LET c == Strip(text) IN
          SafeInput(text,
            /\ IF c = Str_99 THEN MainReturns(<<>>)
               ELSE IF c \in {Str_1, Str_2, Str_3} THEN GoOn("e_pick", <<>>)
               ELSE MainReturns(<<Msg("invalid", "choice", 0)>>)
            /\ UNCHANGED fn)
    /\ UNCHANGED <<mainRest, palette>>

\* select_video_file, second prompt (lines 2245, 2265, 2296, 2314): the file
\* itself; an empty or unusable answer returns None
EditorPickFile ==
    /\ pc = "e_pick"
    /\ \E text \in Typed :
          LET c == Strip(text) IN
          SafeInput(text,
            /\ IF c = Str_99 THEN MainReturns(<<>>)
               ELSE IF c \in {Str_1, Str_2, Str_3, Str_4, Str_5}
               THEN GoOn("e_menu", <<>>)
               ELSE MainReturns(<<Msg("invalid", "selection", 0)>>)
            /\ UNCHANGED fn)
    /\ UNCHANGED <<mainRest, palette>>

\* lines 3283-3341: the operation menu of video_editor_menu up to the call
\* of the operation chosen; after an invalid choice the loop starts over
EditorMenu ==
    /\ pc = "e_menu"
    /\ \E text \in Typed :
          LET operation == Strip(text) IN
          SafeInput(text,
            CASE operation = Str_99 -> MainReturns(<<>>) /\ UNCHANGED fn
              [] operation = Str_1 -> GoOn("e_setup", <<>>) /\ fn' = "trim_video"
              [] operation = Str_2 ->
                   GoOn("e_setup", <<>>) /\ fn' = "transcode_video"
              [] operation = Str_3 ->
                   GoOn("e_setup", <<>>) /\ fn' = "convert_format"
              [] operation = Str_4 ->
                   GoOn("e_setup", <<>>) /\ fn' = "convert_to_gif"
              [] operation = Str_5 -> GoOn("e_setup", <<>>) /\ fn' = "add_padding"
              [] OTHER ->
                   GoOn("e_select", <<Msg("invalid", "choice", 0)>>)
                     /\ UNCHANGED fn)
    /\ UNCHANGED <<mainRest, palette>>

\* the prompts of the editor operation, each a safe_input; convert_to_gif
\* goes on only when the last one is answered with y
EditorPrompt ==
    /\ pc = "e_setup"
    /\ \E text \in Typed :
          SafeInput(text,
            /\ IF fn = "convert_to_gif" /\ Lower(Strip(text)) # Str_y
               THEN GoOn("e_another", <<Msg("cancelled", fn, 0)>>)
               ELSE GoOn(IF fn \in GifOperations THEN "g_palette" ELSE "e_run",
                         <<>>)
            /\ UNCHANGED fn)
    /\ UNCHANGED <<mainRest, palette>>

\* the ffmpeg run of an operation with a single one
EditorRun ==
    /\ pc = "e_run"
    /\ \E outcome \in RunOutcomes :
          IF outcome = "ok" THEN GoOn("e_another", <<Msg("done", fn, 0)>>)
          ELSE IF Caught(outcome, Catches(prog, fn))
          THEN GoOn("e_another", <<Msg("error", outcome, 0)>>)
          ELSE Propagate(outcome)
    /\ UNCHANGED <<mainRest, mainVars>>

\* lines 1795 and 1925: ffmpeg generates the palette.  A run that fails or
\* is interrupted may or may not have written the file; the handler of
\* CalledProcessError removes it if it exists.
GifPalette ==
    /\ pc = "g_palette"
    /\ \E outcome \in RunOutcomes, written \in BOOLEAN :
          IF outcome = "ok"
          THEN GoOn("g_gif", <<>>) /\ palette' = TRUE
          ELSE IF outcome = "FileNotFoundError"
          THEN Propagate(outcome) /\ palette' = FALSE
          ELSE IF Caught(outcome, Catches(prog, fn))
          THEN GoOn("e_another", <<Msg("error", outcome, 0)>>)
                 /\ palette' = FALSE
          ELSE Propagate(outcome) /\ palette' = written
    /\ UNCHANGED <<mainRest, fn, typed, asked>>

\* lines 1807-1814 and 1931-1938: ffmpeg renders the GIF with the palette,
\* then the palette is removed; lines 1816-1821 and 1940-1945 on
\* CalledProcessError
GifRender ==
    /\ pc = "g_gif"
    /\ \E outcome \in RunOutcomes :
          IF outcome = "ok"
          THEN GoOn("e_another", <<Msg("done", fn, 0)>>) /\ palette' = FALSE
          ELSE IF Caught(outcome, Catches(prog, fn))
          THEN GoOn("e_another", <<Msg("error", outcome, 0)>>)
                 /\ palette' = FALSE
          ELSE Propagate(outcome) /\ UNCHANGED palette
    /\ UNCHANGED <<mainRest, fn, typed, asked>>

\* lines 3344-3348: "Perform another operation on this file? (y/N): ";
\* on y the while loop of line 3277 starts over with select_video_file
EditorAnother ==
    /\ pc = "e_another"
    /\ \E text \in Typed :
          SafeInput(text,
            /\ IF Lower(Strip(text)) = Str_y THEN GoOn("e_select", <<>>)
               ELSE MainReturns(<<>>)
            /\ UNCHANGED fn)
    /\ UNCHANGED <<mainRest, palette>>

\* show_file_metadata: the path of the file
MetadataPath ==
    /\ pc = "f_path"
    /\ \E text \in Typed :
          SafeInput(text,
            /\ IF Strip(text) = <<>>
               THEN MainReturns(<<Msg("error", "No file path provided", 0)>>)
               ELSE GoOn("f_level", <<>>)
            /\ UNCHANGED fn)
    /\ UNCHANGED <<mainRest, palette>>

\* show_file_metadata: basic or full
MetadataLevel ==
    /\ pc = "f_level"
    /\ \E text \in Typed :
          LET c == Strip(text) IN
          SafeInput(text,
            CASE c = Str_1 -> GoOn("f_show", <<>>) /\ fn' = "show_basic_metadata"
              [] c = Str_2 -> GoOn("f_show", <<>>) /\ fn' = "show_full_metadata"
              [] OTHER ->
                   MainReturns(<<Msg("invalid", "choice", 0)>>)
                     /\ UNCHANGED fn)
    /\ UNCHANGED <<mainRest, palette>>

\* show_basic_metadata, show_full_metadata: the tool runs inside the try
MetadataShow ==
    /\ pc = "f_show"
    /\ \E outcome \in {"ok", "FileNotFoundError", "KeyboardInterrupt",
                       "TimeoutExpired"} :
          IF outcome = "ok" THEN GoOn("f_pause", <<Msg("done", fn, 0)>>)
          ELSE IF Caught(outcome, Catches(prog, fn))
          THEN GoOn("f_pause", <<Msg("error", outcome, 0)>>)
          ELSE Propagate(outcome)
    /\ UNCHANGED <<mainRest, mainVars>>

\* lines 2474 and 2594: input("Press Enter to continue..."), read without
\* check_for_quit; whatever is typed, the function returns, and main after it
MetadataPause ==
    /\ pc = "f_pause"
    /\ \E text \in Typed :
          /\ typed' = text
          /\ asked' = "input"
          /\ MainReturns(<<>>)
    /\ UNCHANGED <<mainRest, fn, palette>>

NextMain ==
    \/ MainCheckDependencies
    \/ MainChoice
    \/ MainUrl
    \/ MainOpt
    \/ DownloadPrompt
    \/ Download
    \/ EditorCheckFfmpeg
    \/ EditorSelectFile
    \/ EditorPickFile
    \/ EditorMenu
    \/ EditorPrompt
    \/ EditorRun
    \/ GifPalette
    \/ GifRender
    \/ EditorAnother
    \/ MetadataPath
    \/ MetadataLevel
    \/ MetadataShow
    \/ MetadataPause

SpecMain == InitMain /\ [][NextMain]_vars

-----------------------------------------------------------------------------
(* Properties of main and the operations it calls *)

\* C12: a subprocess error or a user interrupt raised during an operation
\* reachable from main is caught at the call site; none leaves main
C12_NoExceptionLeavesMain ==
    prog = "loutube" =>
        raised \notin {"CalledProcessError", "FileNotFoundError",
                       "TimeoutExpired", "KeyboardInterrupt"}

\* C19: once a GIF operation has ended, by returning to the editor menu or
\* by an exception that ended the program, its temporary palette image does
\* not exist
C19_PaletteRemoved ==
    (fn \in GifOperations
       /\ pc \in {"e_another", "e_select", "e_pick", "e_menu", "exited",
                  "crashed"})
        => ~palette

C20_WitnessRawInput ==
    /\ asked = "input"
    /\ Strip(typed) = Str_99
    /\ pc = "exited"
    /\ ~Printed("goodbye")

-----------------------------------------------------------------------------
(* Properties of the interrupt handling of run_with_progress_counter *)

\* C25: when KeyboardInterrupt has left run_with_progress_counter, the child
\* has been sent SIGTERM and has exited
C25_ChildGoneAfterInterrupt ==
    (pc = "rp_raised" /\ raised = "KeyboardInterrupt") =>
        /\ "interrupt" \in procs[process].termBy
        /\ ~Alive(procs, process)

\* C22: answering y to "Perform another operation on this file?" leads to
\* the operation menu for the same file, not to the selection of a file
C22_AnotherOperationSameFile ==
    [][(pc = "e_another" /\ Lower(Strip(typed')) = Str_y /\ pc' # pc)
          => pc' = "e_menu"]_vars

\* C23: 99 chosen in the file-selection menus or in the operation menu of
\* the editor gives control back to the caller; the program is not ended by
\* check_for_quit
C23_BackReturnsToCaller ==
    [][(pc \in {"e_select", "e_pick", "e_menu"} /\ Strip(typed') = Str_99
          /\ pc' # pc)
          => ~(\E i \in 1..Len(out') : out'[i].tag = "goodbye")]_vars


(***************************************************************************)
(* The yt-dlp command builders and the detection of browser cookies.      *)
(* A URL is a sequence of characters, a command a sequence of arguments.  *)
(***************************************************************************)

\* the number of command-builder calls of one behaviour
MaxCalls == 3

Str_youtu_be ==
    <<"y", "o", "u", "t", "u", ".", "b", "e">>

Str_www_youtu_be ==
    <<"w", "w", "w", ".", "y", "o", "u", "t", "u", ".", "b", "e">>

\* YOUTUBE_HOST_SUFFIXES
YOUTUBE_HOST_SUFFIXES ==
    {
    <<"y", "o", "u", "t", "u", "b", "e", ".", "c", "o", "m">>,
    <<"y", "o", "u", "t", "u", "b", "e", "-", "n", "o", "c", "o", "o", "k",
      "i", "e", ".", "c", "o", "m">>
    }

CookiesOption == "--cookies-from-browser"

\* the URLs given to the command builders
Urls ==
    {
    <<"h", "t", "t", "p", "s", ":", "/", "/", "w", "w", "w", ".", "y", "o",
      "u", "t", "u", "b", "e", ".", "c", "o", "m", "/", "w", "a", "t", "c",
      "h", "?", "v", "=", "a">>,
    <<"h", "t", "t", "p", "s", ":", "/", "/", "y", "o", "u", "t", "u", ".",
      "b", "e", "/", "a">>,
    <<"H", "T", "T", "P", "S", ":", "/", "/", "u", ":", "p", "@", "M", "u",
      "s", "i", "c", ".", "Y", "o", "u", "T", "u", "b", "e", ".", "c", "o",
      "m", ":", "4", "4", "3", "/", "a">>,
    <<"h", "t", "t", "p", "s", ":", "/", "/", "y", "o", "u", "t", "u", "b",
      "e", "-", "n", "o", "c", "o", "o", "k", "i", "e", ".", "c", "o", "m",
      "?", "v", "=", "a">>,
    <<"h", "t", "t", "p", "s", ":", "/", "/", "n", "o", "t", "y", "o", "u",
      "t", "u", "b", "e", ".", "c", "o", "m", "/", "a">>,
    <<"h", "t", "t", "p", "s", ":", "/", "/", "y", "o", "u", "t", "u", "b",
      "e", ".", "c", "o", "m", ".", "e", "v", "i", "l", ".", "o", "r", "g",
      "/", "@", "y", "o", "u", "t", "u", "b", "e", ".", "c", "o", "m">>,
    <<"f", "t", "p", ":", "/", "/", "v", "i", "m", "e", "o", ".", "c", "o",
      "m", ":", "2", "1", "/", "a", "#", "y", "o", "u", "t", "u", "b", "e",
      ".", "c", "o", "m">>,
    <<>>
    }

\* position of the first character of s at or after i that is in cs,
\* Len(s) + 1 when there is none (str.find, str.split(sep, 1))
Find(s, cs, i) == MinOf({j \in i..Len(s) : s[j] \in cs} \cup {Len(s) + 1})

Letters == {UpperCase[i] : i \in 1..26} \cup {LowerCase[i] : i \in 1..26}

SchemeChars == Letters \cup {Digits[i] : i \in 1..10} \cup {"+", "-", "."}

\* urllib.parse.urlsplit: the text after a valid "scheme:" prefix
AfterScheme(u) ==
    LET i == Find(u, {":"}, 1)
    IN  IF /\ i > 1
           /\ i <= Len(u)
           /\ u[1] \in Letters
           /\ \A j \in 1..(i - 1) : u[j] \in SchemeChars
        THEN SubSeq(u, i + 1, Len(u))
        ELSE u

\* urllib.parse.urlparse(url).netloc: what follows "//" up to the first of
\* "/", "?" and "#"
Netloc(u) ==
    LET r == AfterScheme(u)
    IN  IF Len(r) >= 2 /\ r[1] = "/" /\ r[2] = "/"
        THEN SubSeq(r, 3, Find(r, {"/", "?", "#"}, 3) - 1)
        ELSE <<>>

\* a variant that keeps the case of the host
NormalizeHost_KeepCase(netloc) ==
    LET a == Find(netloc, {"@"}, 1)
        h == IF a <= Len(netloc) THEN SubSeq(netloc, a + 1, Len(netloc))
             ELSE netloc
    IN  SubSeq(h, 1, Find(h, {":"}, 1) - 1)

\* _normalize_host: lower case, after the first "@", before the first ":"
NormalizeHost(netloc) ==
    LET host == Lower(netloc)
        a == Find(host, {"@"}, 1)
        h == IF a <= Len(host) THEN SubSeq(host, a + 1, Len(host)) ELSE host
    IN  SubSeq(h, 1, Find(h, {":"}, 1) - 1)

\* str.endswith
EndsWith(s, t) ==
    Len(t) <= Len(s) /\ SubSeq(s, Len(s) - Len(t) + 1, Len(s)) = t

is_youtube_url(u) ==
    LET host == NormalizeHost(Netloc(u))
    IN  /\ u # <<>>
        /\ host # <<>>
        /\ \/ host \in {Str_youtu_be, Str_www_youtu_be}
           \/ \E suffix \in YOUTUBE_HOST_SUFFIXES :
                  host = suffix \/ EndsWith(host, <<".">> \o suffix)

\* browser_paths[system] without the entries whose key is None
BrowserKeys(sys, snap) ==
    CASE sys = "linux" ->
             (IF snap THEN <<"brave-snap">> ELSE <<>>) \o
             <<"brave", "firefox", "chrome", "chromium", "edge">>
      [] sys = "darwin" -> <<"firefox", "chrome", "brave", "safari", "edge">>
      [] sys = "windows" -> <<"firefox", "chrome", "brave", "edge">>
      [] OTHER -> <<>>

AllBrowserKeys ==
    {"brave-snap", "brave", "firefox", "chrome", "chromium", "edge", "safari"}

Systems == {"linux", "darwin", "windows", "freebsd"}

\* the probe loop: the keys are tried in order until one probe exits with 0
Probe(keys, avail) ==
    LET hits == {i \in 1..Len(keys) : keys[i] \in avail}
    IN  IF hits = {} THEN [value |-> "", tried |-> Len(keys)]
        ELSE [value |-> keys[MinOf(hits)], tried |-> MinOf(hits)]

\* a variant that probes again on every call
get_browser_cookies_fast_NoCache(checked, cached) ==
    LET r == Probe(BrowserKeys(system, brave_snap), available)
    IN  [value |-> r.value, checked |-> TRUE, cached |-> r.value,
         tried |-> r.tried]

\* get_browser_cookies_fast, from the two globals: the value it returns,
\* the globals it leaves and the number of probes it ran
get_browser_cookies_fast(checked, cached) ==
    IF checked
    THEN [value |-> cached, checked |-> TRUE, cached |-> cached, tried |-> 0]
    ELSE LET r == Probe(BrowserKeys(system, brave_snap), available)
         IN  [value |-> r.value, checked |-> TRUE,
              cached |-> IF r.value # "" THEN r.value ELSE cached,
              tried |-> r.tried]

\* the number of times the option occurs in a command
Occurrences(cmd) == Cardinality({i \in 1..Len(cmd) : cmd[i] = CookiesOption})

\* add_browser_cookies(cmd, u), then `rest` is appended to the command
AddBrowserCookies(cmd, u, rest) ==
    IF u # <<>> /\ ~is_youtube_url(u) /\ Occurrences(cmd) = 0
    THEN LET d == get_browser_cookies_fast(cookies_checked,
                                           cached_browser_cookies)
         IN  /\ command' = cmd \o (IF d.value # ""
                                    THEN <<CookiesOption, d.value>>
                                    ELSE <<>>) \o rest
             /\ cookies_checked' = d.checked
             /\ cached_browser_cookies' = d.cached
             /\ probes' = probes + d.tried
             /\ returned' = d.value
             /\ detections' = detections + 1
    ELSE /\ command' = cmd \o rest
         /\ UNCHANGED <<cookies_checked, cached_browser_cookies, probes,
                        returned, detections>>

cookiesRest == <<streamVars, progressVars, mainVars, validateVars, system,
                 available, brave_snap>>

\* the head of build_base_command and of build_streaming_command
BaseCommand(config) ==
    <<"yt-dlp">> \o (IF config THEN <<"--config-location", "config">>
                     ELSE <<>>) \o
    <<"--no-write-info-json", "--progress-template", "template">>

build_base_command ==
    /\ prog = "loutube"
    /\ calls < MaxCalls
    /\ \E u \in Urls, config \in BOOLEAN :
           /\ url' = u
           /\ AddBrowserCookies(BaseCommand(config), u, <<>>)
    /\ calls' = calls + 1
    /\ UNCHANGED cookiesRest

build_streaming_command ==
    /\ prog = "loutube"
    /\ calls < MaxCalls
    /\ \E u \in Urls, config \in BOOLEAN :
           /\ url' = u
           /\ AddBrowserCookies(BaseCommand(config), u, <<>>)
    /\ calls' = calls + 1
    /\ UNCHANGED cookiesRest

get_direct_stream_url ==
    /\ prog = "loutube"
    /\ calls < MaxCalls
    /\ \E u \in Urls :
           /\ url' = u
           /\ AddBrowserCookies(<<"yt-dlp", "--no-config",
                                  "--no-write-info-json">>, u, <<"-g", "url">>)
    /\ calls' = calls + 1
    /\ UNCHANGED cookiesRest

\* add_browser_cookies applied to a command that was built before
add_browser_cookies ==
    /\ prog = "loutube"
    /\ calls < MaxCalls
    /\ command # <<>>
    /\ \E u \in Urls :
           /\ url' = u
           /\ AddBrowserCookies(command, u, <<>>)
    /\ calls' = calls + 1
    /\ UNCHANGED cookiesRest

\* youtube_downloader: main and show_config ask for the cookies
YdGetBrowserCookies ==
    /\ prog = "youtube_downloader"
    /\ calls < MaxCalls
    /\ LET d == get_browser_cookies_fast(cookies_checked,
                                         cached_browser_cookies)
       IN  /\ cookies_checked' = d.checked
           /\ cached_browser_cookies' = d.cached
           /\ probes' = probes + d.tried
           /\ returned' = d.value
           /\ detections' = detections + 1
    /\ calls' = calls + 1
    /\ UNCHANGED <<cookiesRest, url, command>>

\* youtube_downloader: build_base_command(url, browser_cookies)
YdBuildBaseCommand ==
    /\ prog = "youtube_downloader"
    /\ calls < MaxCalls
    /\ detections > 0
    /\ \E u \in Urls \ {<<>>}, config \in BOOLEAN :
           /\ url' = u
           /\ command' = <<"yt-dlp">> \o
                         (IF config THEN <<"--config-location", "config">>
                          ELSE <<>>) \o
                         (IF returned # "" THEN <<CookiesOption, returned>>
                          ELSE <<>>)
    /\ calls' = calls + 1
    /\ UNCHANGED <<cookiesRest, cookies_checked, cached_browser_cookies,
                   probes, returned, detections>>

InitCookies ==
    /\ prog \in Programs
    /\ pc = "cookies"
    /\ live = FALSE
    /\ choice = ""
    /\ procs = [p \in Pids |-> NoProc]
    /\ yt_process = NoHandle /\ vlc_process = NoHandle
    /\ newborn = NoHandle /\ run_process = NoHandle
    /\ ctlPipe = "none" /\ closes = 0 /\ stderr_pipe = 0
    /\ out = <<>>
    /\ nsig = 0 /\ handlerRuns = {}
    /\ health = "unchecked" /\ timedOut = FALSE
    /\ spawnFailed = "" /\ finallyDone = FALSE
    /\ exitStatus = NoStatus
    /\ ProgressIdle
    /\ MainIdle
    /\ ValidateIdle
    /\ url = <<>>
    /\ command = <<>>
    /\ cookies_checked = FALSE
    /\ cached_browser_cookies = ""
    /\ probes = 0
    /\ returned = ""
    /\ detections = 0
    /\ calls = 0
    /\ system \in Systems
    /\ available \in {S \in SUBSET AllBrowserKeys : Cardinality(S) <= 1}
    /\ brave_snap \in BOOLEAN

NextCookies ==
    \/ build_base_command
    \/ build_streaming_command
    \/ get_direct_stream_url
    \/ add_browser_cookies
    \/ YdGetBrowserCookies
    \/ YdBuildBaseCommand

SpecCookies == InitCookies /\ [][NextCookies]_vars


-----------------------------------------------------------------------------
(* Properties of the command builders and of the cookie detection *)

\* the host of a URL as a client reads it: the authority without the user
\* information and without the port, in lower case
URLHost(u) ==
    LET n == Lower(Netloc(u))
        ats == {i \in 1..Len(n) : n[i] = "@"}
        h == IF ats = {} THEN n ELSE SubSeq(n, MaxOf(ats) + 1, Len(n))
    IN  SubSeq(h, 1, Find(h, {":"}, 1) - 1)

\* youtu.be, youtube.com, youtube-nocookie.com and the subdomains of the
\* last two
YouTubeOwned(h) ==
    \/ h = Str_youtu_be
    \/ \E d \in YOUTUBE_HOST_SUFFIXES :
           \/ h = d
           \/ /\ Len(h) > Len(d) + 1
              /\ SubSeq(h, Len(h) - Len(d), Len(h)) = <<".">> \o d

\* the command `long` is the command `short` with arguments appended
IsPrefix(short, long) ==
    Len(short) <= Len(long) /\ SubSeq(long, 1, Len(short)) = short

C24_DetectionRunsOnce ==
    [][cookies_checked =>
          /\ probes' = probes
          /\ detections' # detections => returned' = returned]_vars

\* two calls of get_browser_cookies_fast have returned the key of a browser
\* that only the third probe found
C24_Witness ==
    /\ detections >= 2
    /\ probes >= 3
    /\ returned # ""
    /\ returned = cached_browser_cookies


-----------------------------------------------------------------------------
(* Further properties of the streaming pipeline *)

\* C27: when loutube exits after a streaming session, neither the producer
\* nor the player that watch_video holds is still running: a process that
\* did not exit on the termination request has been killed, also when a
\* further signal arrived during the cleanup of the finally block.
C27_SurvivorsKilledBeforeExit ==
    (prog = "loutube" /\ pc = "exited") =>
        /\ ~Alive(procs, yt_process)
        /\ ~Alive(procs, vlc_process)


\* C26: while the controller waits on the player of a piped session, the
\* producer is never blocked in a write: the pipe of its stderr, like the
\* pipe of its output, is drained by a reader as long as the producer runs.
C26_ProducerNeverBlocked ==
    (prog = "loutube" /\ pc = "communicate") => ~Blocked(procs, yt_process)


\* C28: watch_video of loutube never returns to its caller once it has
\* entered the try block; when its control flow has ended, the program has
\* exited with status 0, also when an error was reported.
C28_NeverReturnsExitsZero ==
    prog = "loutube" =>
        /\ pc # "returned"
        /\ finallyDone => pc = "exited"
        /\ pc = "exited" => exitStatus = 0

\* the session reported that the producer failed to start and the program
\* has exited with status 0 at the end of the finally block
C28_Witness ==
    /\ prog = "loutube"
    /\ pc = "exited"
    /\ finallyDone
    /\ exitStatus = 0
    /\ Printed("yt-dlp failed to start")


-----------------------------------------------------------------------------
(* A streaming session of loutube under a controller that keeps running *)

\* the steps of the controller in watch_video of loutube
Controller ==
    \/ CheckVlc
    \/ GetDirectUrl
    \/ DirectSpawn
    \/ DirectBind
    \/ DirectWait
    \/ LiveRecord
    \/ RecordSpawn
    \/ RecordInit
    \/ RecordWait
    \/ SpawnYt
    \/ BindYt
    \/ Sleep
    \/ HealthCheck
    \/ SpawnVlc
    \/ BindVlc
    \/ ClosePipe
    \/ Communicate
    \/ CommunicateTimeout
    \/ TimeoutWait
    \/ TimeoutKill
    \/ FinYt
    \/ FinYtWait
    \/ FinYtKill
    \/ FinVlc
    \/ FinVlcWait
    \/ FinVlcKill

InitLive == Init /\ prog = "loutube"

NextLive ==
    \/ Controller
    \/ Signal
    \/ ProcExit
    \/ YtWritesStderr

\* The controller is a sequential program: a step it can take is taken.
\* Every wait with a timeout (sleep(1), communicate(timeout=7200),
\* wait(timeout=5)) ends, by its condition or by its timeout; a wait without
\* a timeout is a step only when the process has exited.  Nothing is assumed
\* of the processes and of the signals.
SpecLive == InitLive /\ [][NextLive]_vars /\ WF_vars(Controller)

\* C29 as stated: every streaming session of watch_video ends with the exit
\* of the program, whatever the processes do.
C29_EverySessionTerminates == <>(pc = "exited")

\* C29 for the piped sessions: a session that is not the direct-URL or the
\* recording branch of a live stream, and any session once it starts the
\* producer of the pipe, ends with the exit of the program.
C29_PipedSessionTerminates ==
    ((~live \/ choice \notin {"1", "2", "3"} \/ pc = "spawn_yt")
        ~> (pc = "exited"))

\* a piped session has ended after the long wait timed out and the cleanup
\* had to kill a process that did not exit on the termination request
C29_Witness ==
    /\ pc = "exited"
    /\ timedOut
    /\ \E p \in Pids : "finally" \in procs[p].killBy


-----------------------------------------------------------------------------
(* validate_output_path, lines 1505-1530.  A path is a sequence of         *)
(* characters; the file system is the set of the paths that exist.         *)

\* the number of times the loop asks for another name
MaxRounds == 2

Str_n == <<"n">>

\* the path the caller asks for
OutputPaths == {<<"d", "/", "a", ".", "b">>}

\* the paths that may exist when validate_output_path is called
Files ==
    {<<"d", "/", "a", ".", "b">>, <<"d", "/", "a", "_", "1", ".", "b">>,
     <<"d", "/", "a", "_", "2", ".", "b">>, <<"d", "/", "c">>}

\* what the user types at a (y/N) prompt
Answers == {Str_y, <<" ", "Y">>, Str_n, <<>>, Str_99}

\* what the user types at "Enter new filename: "
Names == {<<"a", ".", "b">>, <<" ", "a", "_", "1", ".", "b", " ">>, <<"c">>, <<>>, Str_99}

\* position of the last character of s that is in cs, 0 when there is none
LastOf(s, cs) == MaxOf({j \in 1..Len(s) : s[j] \in cs} \cup {0})

\* os.path.splitext(p): the extension starts at the last dot of the last
\* component, unless that component has only leading dots
SplitAt(p) ==
    LET sep == LastOf(p, {"/"})
        dot == LastOf(p, {"."})
    IN  IF dot > sep /\ \E j \in (sep + 1)..(dot - 1) : p[j] # "."
        THEN dot ELSE Len(p) + 1

\* os.path.dirname(p)
Dirname(p) ==
    LET sep == LastOf(p, {"/"})
        head == SubSeq(p, 1, sep)
    IN  IF sep > 0 /\ \E j \in 1..sep : head[j] # "/"
        THEN SubSeq(p, 1, LastOf(head, {c \in {p[j] : j \in 1..sep} : c # "/"}))
        ELSE head

\* os.path.join(d, name)
Join(d, name) ==
    IF name # <<>> /\ name[1] = "/" THEN name
    ELSE IF d = <<>> \/ d[Len(d)] = "/" THEN d \o name
    ELSE d \o <<"/">> \o name

\* f"{base_path}_{counter}{extension}"
Suggested == base_path \o <<"_">> \o IntToChars(counter) \o extension

validateRest == <<prog, live, choice, procs, yt_process, vlc_process,
                  newborn, run_process, ctlPipe, closes, out, nsig,
                  handlerRuns, health, timedOut, spawnFailed, finallyDone,
                  stderr_pipe, progressVars, mainVars, cookieVars,
                  base_path, extension, exists>>

\* safe_input in validate_output_path: 99 ends the program
ValidateInput(text, continue) ==
    IF CheckForQuit(text)
    THEN /\ pc' = "exited"
         /\ exitStatus' = 0
         /\ UNCHANGED <<output_path, counter, confirmed>>
    ELSE /\ continue
         /\ exitStatus' = exitStatus

\* line 1512: while os.path.exists(output_path); line 1530: return
ValidateTest ==
    /\ pc = "v_test"
    /\ pc' = IF output_path \in exists THEN "v_overwrite" ELSE "v_returned"
    /\ UNCHANGED <<validateRest, exitStatus, output_path, counter, confirmed>>

\* lines 1513-1517: "Overwrite? (y/N)"
ValidateOverwrite ==
    /\ pc = "v_overwrite"
    /\ \E text \in Answers :
          ValidateInput(text,
              IF Lower(Strip(text)) = Str_y
              THEN /\ confirmed' = confirmed \cup {output_path}
                   /\ pc' = "v_returned"
                   /\ UNCHANGED <<output_path, counter>>
              ELSE /\ output_path' = Suggested
                   /\ pc' = "v_suggest"
                   /\ UNCHANGED <<counter, confirmed>>)
    /\ UNCHANGED validateRest

\* lines 1518-1521: "Use this filename? (y/N)"
ValidateSuggested ==
    /\ pc = "v_suggest"
    /\ \E text \in Answers :
          ValidateInput(text,
              /\ pc' = IF Lower(Strip(text)) = Str_y
                       THEN "v_returned" ELSE "v_new"
              /\ UNCHANGED <<output_path, counter, confirmed>>)
    /\ UNCHANGED validateRest

\* lines 1522-1528: "Enter new filename: ", counter += 1
ValidateNewName ==
    /\ pc = "v_new"
    /\ counter <= MaxRounds
    /\ \E text \in Names :
          ValidateInput(text,
              /\ output_path' = IF Strip(text) # <<>>
                                THEN Join(Dirname(output_path), Strip(text))
                                ELSE Suggested
              /\ counter' = counter + 1
              /\ pc' = "v_test"
              /\ UNCHANGED confirmed)
    /\ UNCHANGED validateRest

\* lines 1507-1510: the call, in some state of the file system
InitValidate ==
    /\ prog = "loutube"
    /\ pc = "v_test"
    /\ live = FALSE
    /\ choice = ""
    /\ procs = [p \in Pids |-> NoProc]
    /\ yt_process = NoHandle /\ vlc_process = NoHandle
    /\ newborn = NoHandle /\ run_process = NoHandle
    /\ ctlPipe = "none" /\ closes = 0 /\ stderr_pipe = 0
    /\ out = <<>>
    /\ nsig = 0 /\ handlerRuns = {}
    /\ health = "unchecked" /\ timedOut = FALSE
    /\ spawnFailed = "" /\ finallyDone = FALSE
    /\ exitStatus = NoStatus
    /\ ProgressIdle
    /\ MainIdle
    /\ CookiesIdle
    /\ output_path \in OutputPaths
    /\ base_path = SubSeq(output_path, 1, SplitAt(output_path) - 1)
    /\ extension = SubSeq(output_path, SplitAt(output_path), Len(output_path))
    /\ counter = 1
    /\ exists \in SUBSET Files
    /\ confirmed = {}

NextValidate ==
    \/ ValidateTest
    \/ ValidateOverwrite
    \/ ValidateSuggested
    \/ ValidateNewName

SpecValidate == InitValidate /\ [][NextValidate]_vars

\* C30: the path validate_output_path returns does not exist, or the user
\* answered 'y' to the question whether to overwrite that very path.
C30_ReturnedPathFreeOrConfirmed ==
    pc = "v_returned" => (output_path \notin exists \/ output_path \in confirmed)

====
